---- MODULE Spec2Model ----
(***************************************************************************)
(* Model of the asset fetcher of aurora (src/src/main.ts): downloadAssets  *)
(* with its HTTP worker pool (runConcurrentTasks / newDl / fetchFile), the *)
(* sequential git stage (fetchGit), the mirror rewriter (urlMapping) and   *)
(* the checksum probe (sumCheckStrict).                                    *)
(*                                                                         *)
(* Strings are sequences of tokens: a token is a piece of text that the    *)
(* code never splits ("https://", a host name, "/", a path segment, the    *)
(* "git+" prefix, the "::" separator, a ".git" suffix, a "#..." fragment). *)
(* Destination paths are join(dir, name, filename); the task lists drawn   *)
(* in Init give every task its own destination path.                       *)
(*                                                                         *)
(* Further sections model, each under a specification of its own: the      *)
(* .SRCINFO parser (parsePkgData), the dependency map of update/install,   *)
(* the PKGBUILD readers of src/unnamed/part_002 (applyParamExpansion,      *)
(* parsePKGBUILDMore, unwarpArray, parsePKGBUILD, on sequences of          *)
(* characters), parseSourceUrl on its own, and installWithOutCheckDep with *)
(* make at the level of packages.                                          *)
(***************************************************************************)
EXTENDS Integers, Sequences, FiniteSets, TLC

\* ------------------------------------------------------------------ bounds
MaxTasks == 2
MaxWorkers == 2
MaxRules == 2
MaxApply == 2
MaxLines == 4
MaxValLen == 2
MaxArrayLen == 4

\* ------------------------------------------------------- string primitives
startsWith(s, x) ==
    Len(s) >= Len(x) /\ SubSeq(s, 1, Len(x)) = x

\* String.prototype.indexOf: first position of x in s at or after k, 0 when
\* absent (0 stands for the -1 of the code, positions are 1-based here)
RECURSIVE indexOfFrom(_, _, _)
indexOfFrom(s, x, k) ==
    IF k + Len(x) - 1 > Len(s) THEN 0
    ELSE IF SubSeq(s, k, k + Len(x) - 1) = x THEN k
    ELSE indexOfFrom(s, x, k + 1)

indexOf(s, x) == indexOfFrom(s, x, 1)

includes(s, x) == indexOf(s, x) # 0

\* the text of s before position k, then to, then the text after the match
splice(s, k, n, to) == SubSeq(s, 1, k - 1) \o to \o SubSeq(s, k + n, Len(s))

\* String.prototype.replace with a string pattern: first occurrence only
replace(s, x, to) ==
    IF indexOf(s, x) = 0 THEN s ELSE splice(s, indexOf(s, x), Len(x), to)

Separators == {"/", "https://", "http://"}

\* position of the last slash of s at or before k, 0 when there is none
RECURSIVE lastSlash(_, _)
lastSlash(s, k) ==
    IF k = 0 THEN 0
    ELSE IF s[k] \in Separators THEN k
    ELSE lastSlash(s, k - 1)

\* url.split("/").at(-1): the tokens after the last slash
lastSegment(s) == SubSeq(s, lastSlash(s, Len(s)) + 1, Len(s))

\* url.split("/").slice(0, -1).join("/") followed by "/": all up to the last slash
beforeLastSegment(s) == SubSeq(s, 1, lastSlash(s, Len(s)))

isFragment(tok) == tok \in {"#tag", "#branch"}

\* .replace(/#.*$/, "").replace(/\.git.*$/, "") on one path segment: the
\* segment is cut at its first "#..." or ".git"
RECURSIVE stripGitSuffix(_)
stripGitSuffix(seg) ==
    IF seg = <<>> THEN <<>>
    ELSE IF isFragment(seg[1]) \/ seg[1] = ".git" THEN <<>>
    ELSE <<seg[1]>> \o stripGitSuffix(Tail(seg))

\* path.replace(/\/\/+/g, "/"): runs of slashes become one slash
RECURSIVE collapseSlashes(_)
collapseSlashes(s) ==
    IF Len(s) <= 1 THEN s
    ELSE IF s[1] = "/" /\ s[2] = "/" THEN collapseSlashes(Tail(s))
    ELSE <<s[1]>> \o collapseSlashes(Tail(s))

isHttpUrl(u) == startsWith(u, <<"https://">>) \/ startsWith(u, <<"http://">>)

\* parseSourceUrl lines 617-636: the file name
sourceName(url) ==
    IF indexOf(url, <<"::">>) = 0
    THEN IF startsWith(url, <<"git+">>)
         THEN stripGitSuffix(lastSegment(url))
         ELSE lastSegment(url)
    ELSE SubSeq(url, 1, indexOf(url, <<"::">>) - 1)

\* parseSourceUrl lines 617-636: the text after "name::"
sourceRest(url) ==
    IF indexOf(url, <<"::">>) = 0 THEN url
    ELSE SubSeq(url, indexOf(url, <<"::">>) + 1, Len(url))

\* parseSourceUrl lines 638-644: without "git+", fragment and ".git"
gitUrl(u) ==
    (IF lastSlash(u, Len(u)) = 0 THEN <<"/">> ELSE beforeLastSegment(u))
    \o stripGitSuffix(lastSegment(u))

\* parseSourceUrl lines 646-652: the path of an http(s) url loses repeated slashes
normalizePath(u) ==
    IF isHttpUrl(u) THEN <<u[1]>> \o collapseSlashes(Tail(u)) ELSE u

\* parseSourceUrl lines 638-658, u being the text after "name::"
\* (CHOOSE over a one-element set names an intermediate value)
sourceUrl(name, u) ==
    IF startsWith(u, <<"git+">>)
    THEN CHOOSE r \in { [name |-> name, url |-> normalizePath(g), type |-> "git"] :
                          g \in {gitUrl(Tail(u))} } : TRUE
    ELSE [name |-> name, url |-> normalizePath(u), type |-> "http"]

parseSourceUrl(url) ==
    CHOOSE r \in { sourceUrl(n, u) : n \in {sourceName(url)}, u \in {sourceRest(url)} } : TRUE

\* ----------------------------------------------------------- mirror rewrite
\* the default of build.mirrorList (lines 149-165); no default rule sets regex
urlMappingList ==
    << [src |-> <<"https://", "raw.githubusercontent.com">>, type |-> "http",
        regex |-> FALSE, to |-> <<"https://", "raw.gitmirror.com">>],
       [src |-> <<"https://", "github.com">>, type |-> "http", regex |-> FALSE,
        to |-> <<"https://", "hub.gitmirror.com", "/", "https://", "github.com">>],
       [src |-> <<"https://", "github.com">>, type |-> "git", regex |-> FALSE,
        to |-> <<"https://", "hub.gitmirror.com", "/", "https://", "github.com">>] >>

\* a pattern token of a RegExp source: "[^/]+" stands for one piece of text
\* without a slash, every other token for itself
AnySegment == "[^/]+"

regexTokenMatches(p, tok) ==
    IF p = AnySegment THEN tok \notin Separators ELSE p = tok

regexMatchesAt(s, pat, k) ==
    /\ k + Len(pat) - 1 <= Len(s)
    /\ \A j \in 1..Len(pat) : regexTokenMatches(pat[j], s[k + j - 1])

\* RegExp.prototype.exec without the g flag: the leftmost match, 0 when none
RECURSIVE regexSearchFrom(_, _, _)
regexSearchFrom(s, pat, k) ==
    IF k + Len(pat) - 1 > Len(s) THEN 0
    ELSE IF regexMatchesAt(s, pat, k) THEN k
    ELSE regexSearchFrom(s, pat, k + 1)

\* lines 692-700: the matcher of rule i accepts url
ruleMatches(i, url) ==
    IF i.regex THEN regexSearchFrom(url, i.src, 1) # 0 ELSE includes(url, i.src)

\* variant: the whole url is replaced by the target of the rule
ruleReplace_whole(i, url) ==
    IF ruleMatches(i, url) THEN i.to ELSE url

\* line 702: url.replace(x, i.to), the first match only
ruleReplace(i, url) ==
    IF i.regex
    THEN IF regexSearchFrom(url, i.src, 1) = 0 THEN url
         ELSE splice(url, regexSearchFrom(url, i.src, 1), Len(i.src), i.to)
    ELSE replace(url, i.src, i.to)

\* variant: the type of a rule is not compared
urlMappingFrom_anyType(list, k, url, type) ==
    IF \E j \in k..Len(list) : ruleMatches(list[j], url)
    THEN ruleReplace(list[CHOOSE j \in k..Len(list) :
                             /\ ruleMatches(list[j], url)
                             /\ \A h \in k..(j - 1) : ~ruleMatches(list[h], url)], url)
    ELSE url

\* the loop of urlMapping over list, from rule k on
RECURSIVE urlMappingFrom(_, _, _, _)
urlMappingFrom(list, k, url, type) ==
    IF k > Len(list) THEN url
    ELSE LET i == list[k]
         IN  IF i.type # type THEN urlMappingFrom(list, k + 1, url, type)
             ELSE IF ruleMatches(i, url) THEN ruleReplace(i, url)
             ELSE urlMappingFrom(list, k + 1, url, type)

urlMapping(url, type) == urlMappingFrom(urlMappingList, 1, url, type)

\* ----------------------------------------------------------- checksum probe
\* the digest the `${type}sum` tool prints for a file with the given content
Digest(content) ==
    CASE content = "good" -> "h1"
      [] content = "bad" -> "h2"
      [] OTHER -> "h3"

\* variant: the digest comparison of line 720 is left out
sumCheckStrict_noCompare(content, sum) ==
    IF sum = "SKIP" THEN FALSE
    ELSE IF sum = "" THEN FALSE
    ELSE TRUE

sumCheckStrict(content, sum) ==
    IF sum = "SKIP" THEN FALSE
    ELSE IF sum = "" THEN FALSE
    ELSE Digest(content) = sum


\* ------------------------------------------------- Map<string, number>
\* a Map is kept as the sequence of its entries in insertion order
MapHas(m, k) == \E j \in 1..Len(m) : m[j].k = k

\* counts.get(name) || 0
MapGet(m, k) ==
    IF MapHas(m, k) THEN (CHOOSE e \in {m[j] : j \in 1..Len(m)} : e.k = k).v ELSE 0

MapSet(m, k, v) ==
    IF MapHas(m, k)
    THEN [j \in 1..Len(m) |-> IF m[j].k = k THEN [k |-> k, v |-> v] ELSE m[j]]
    ELSE Append(m, [k |-> k, v |-> v])

\* the first loop of downloadAssets: one more task for every entry's package
RECURSIVE countTasks(_, _)
countTasks(us, m) ==
    IF us = <<>> THEN m
    ELSE countTasks(Tail(us), MapSet(m, Head(us).name, MapGet(m, Head(us).name) + 1))

deCount(m, name) == MapSet(m, name, MapGet(m, name) - 1)

\* Array.from(counts.entries()).filter(([, v]) => v === 0).map(([k]) => k)
RECURSIVE readyNames(_)
readyNames(m) ==
    IF m = <<>> THEN <<>>
    ELSE (IF Head(m).v = 0 THEN <<Head(m).k>> ELSE <<>>) \o readyNames(Tail(m))

\* ------------------------------------------------------------------ inputs
Packages == {"pkgA", "pkgB"}

SrcMirrored == <<"https://", "github.com", "/", "o", "/", "a.tgz">>
SrcDirect == <<"https://", "example.org", "/", "b.tgz">>
SrcGit == <<"git+", "https://", "github.com", "/", "o", "/", "r", ".git", "#tag">>
SrcLocal == <<"fix.patch">>

\* the entries installWithOutCheckDep builds: { name, url, sum: { type, value } }
SourceEntries ==
    { [name |-> n, url |-> s.url, sum |-> [type |-> "sha256", value |-> s.sum]] :
        n \in Packages,
        s \in { [url |-> SrcMirrored, sum |-> "h1"], [url |-> SrcMirrored, sum |-> "SKIP"],
                [url |-> SrcDirect, sum |-> ""],
                [url |-> SrcGit, sum |-> "SKIP"], [url |-> SrcLocal, sum |-> "SKIP"] } }

\* join(dir, name, filename)
destination(e) == <<e.name, parseSourceUrl(e.url).name>>

TaskLists ==
    { us \in UNION { [1..n -> SourceEntries] : n \in 1..MaxTasks } :
        /\ us[1].name = "pkgA"
        /\ \A a, b \in DOMAIN us : a # b => destination(us[a]) # destination(us[b]) }

VARIABLES
    concurrency,  \* downloadConcurrent
    urls,         \* the argument of downloadAssets
    file,         \* content of the file at each task's destination path
    gitDir,       \* the directory at each git task's destination path
    phase,        \* "prep", "http", "git", "done" (returned), "raised" (rejected)
    nextUrl,      \* position of the preparation loop in urls
    counts,       \* Map<string, number>
    httpL, gitL,  \* the two task lists, as positions in urls
    tph,          \* where each task is
    log,          \* per task, the fetch invocations made for it
    taken,        \* per task, how often it was popped from httpL
    wcur, wdone,  \* per worker, the task awaited and whether the worker returned
    gi,           \* position of the git loop in gitL
    gitBusy,      \* a fetchGit call is awaited
    gitLog,       \* the git tasks in the order in which fetchGit was called
    gitCmds,      \* per task, the git commands its fetchGit call ran
    stale,        \* the tasks whose existing file had another digest than declared
    ret,          \* value returned by downloadAssets
    fn,           \* the function under call, outside downloadAssets
    arg,          \* its arguments
    out           \* what it has returned so far

\* the state of downloadAssets, and the state of a call of another function
dlVars == <<concurrency, urls, file, gitDir, phase, nextUrl, counts, httpL, gitL, tph,
            log, taken, wcur, wdone, gi, gitBusy, gitLog, gitCmds, stale, ret>>
callVars == <<fn, arg, out>>

vars == <<dlVars, callVars>>

Tasks == DOMAIN urls
Workers == 1..concurrency
P(t) == parseSourceUrl(urls[t].url)

NoDir == [st |-> "absent", origin |-> <<>>]

\* the per-run state of downloadAssets on entry
RunStart(us) ==
    /\ phase = "prep"
    /\ nextUrl = 1
    /\ counts = countTasks(us, <<>>)
    /\ httpL = <<>>
    /\ gitL = <<>>
    /\ tph = [t \in DOMAIN us |-> "new"]
    /\ log = [t \in DOMAIN us |-> <<>>]
    /\ taken = [t \in DOMAIN us |-> 0]
    /\ wcur = [w \in Workers |-> 0]
    /\ wdone = [w \in Workers |-> FALSE]
    /\ gi = 1
    /\ gitBusy = FALSE
    /\ gitLog = <<>>
    /\ gitCmds = [t \in DOMAIN us |-> <<>>]
    /\ stale = {}
    /\ ret = <<>>

\* no other function is under call while downloadAssets runs
NoCall == fn = "downloadAssets" /\ arg = <<>> /\ out = <<>>

\* build.download.concurrent is a worker count: 1, 2, ...
Init ==
    /\ concurrency \in 1..MaxWorkers
    /\ urls \in TaskLists
    /\ file = [t \in DOMAIN urls |-> "none"]
    /\ gitDir = [t \in DOMAIN urls |-> NoDir]
    /\ RunStart(urls)
    /\ NoCall


\* ------------------------------------------------- preparation loop body
\* lines 752-772: classify urls[nextUrl]; an existing file that passes
\* sumCheckStrict is counted and not queued
Prepare ==
    /\ phase = "prep"
    /\ nextUrl <= Len(urls)
    /\ \E t \in {nextUrl}, e \in {urls[nextUrl]}, x \in {P(nextUrl)} :
           /\ IF ~isHttpUrl(x.url)
              THEN /\ counts' = deCount(counts, e.name)
                   /\ tph' = [tph EXCEPT ![t] = "local"]
                   /\ UNCHANGED <<httpL, gitL, stale>>
              ELSE IF x.type = "git"
              THEN /\ gitL' = Append(gitL, t)
                   /\ tph' = [tph EXCEPT ![t] = "gitq"]
                   /\ UNCHANGED <<counts, httpL, stale>>
              ELSE /\ IF file[t] # "none" /\ sumCheckStrict(file[t], e.sum.value)
                      THEN /\ counts' = deCount(counts, e.name)
                           /\ tph' = [tph EXCEPT ![t] = "skipped"]
                           /\ UNCHANGED <<httpL, stale>>
                      ELSE /\ httpL' = Append(httpL, t)
                           /\ tph' = [tph EXCEPT ![t] = "queued"]
                           /\ stale' = IF file[t] # "none" /\ e.sum.value \notin {"", "SKIP"}
                                       THEN stale \cup {t} ELSE stale
                           /\ UNCHANGED counts
                   /\ UNCHANGED gitL
    /\ nextUrl' = nextUrl + 1
    /\ UNCHANGED <<callVars, concurrency, urls, file, gitDir, phase, log, taken, wcur, wdone,
                   gi, gitBusy, gitLog, gitCmds, ret>>

\* ------------------------------------------------------- HTTP worker pool
\* the part of the state the synchronous code of newDl and of a worker touches
Pool == [httpL |-> httpL, tph |-> tph, log |-> log, taken |-> taken,
         wcur |-> wcur, wdone |-> wdone, counts |-> counts]

\* variant: the last element is read but stays in the list (at(-1) for pop())
pop_peek(l) == [item |-> l[Len(l)], rest |-> l]

\* httpL.pop(): the last element leaves the list
pop(l) == [item |-> l[Len(l)], rest |-> SubSeq(l, 1, Len(l) - 1)]

\* newDl up to its first await (lines 827-844): take a task, rewrite its url,
\* call fetchFile on the rewritten url
newDl(st, w) ==
    IF Len(st.httpL) = 0 THEN st
    ELSE CHOOSE r \in
           { [st EXCEPT !.httpL = pp.rest,
                        !.taken[pp.item] = @ + 1,
                        !.tph[pp.item] = "fetching",
                        !.log[pp.item] = Append(@, [url |-> urlMapping(P(pp.item).url, "http"),
                                                    res |-> "pending"]),
                        !.wcur[w] = pp.item] : pp \in {pop(st.httpL)} } : TRUE

\* variant: a worker that finds the list empty never settles
worker_hang(st, w) ==
    IF Len(st.httpL) > 0
    THEN newDl(st, w)
    ELSE [st EXCEPT !.wcur[w] = 0]

\* one worker (lines 816-820): while (httpL.length > 0) await newDl()
worker(st, w) ==
    IF Len(st.httpL) > 0
    THEN newDl(st, w)
    ELSE [st EXCEPT !.wcur[w] = 0, !.wdone[w] = TRUE]

\* the for loop of runConcurrentTasks: the workers are started one after the
\* other, each running up to its first await
RECURSIVE startWorkers(_, _, _)
startWorkers(st, w, n) ==
    IF w > n THEN st
    ELSE CHOOSE r \in { startWorkers(s1, w + 1, n) : s1 \in {worker(st, w)} } : TRUE

\* variant: the loop bound is i <= concurrency
runConcurrentTasks_offByOne(st, n) == startWorkers(st, 1, n + 1)

\* runConcurrentTasks (lines 811-825) up to await Promise.all(workers)
runConcurrentTasks(st, n) == startWorkers(st, 1, n)

SetPool(st) ==
    \E r \in {st} :
        /\ httpL' = r.httpL
        /\ tph' = r.tph
        /\ log' = r.log
        /\ taken' = r.taken
        /\ wcur' = r.wcur
        /\ wdone' = r.wdone
        /\ counts' = r.counts

\* line 898: the preparation loop is over and the pool is started
StartPool ==
    /\ phase = "prep"
    /\ nextUrl > Len(urls)
    /\ phase' = "http"
    /\ SetPool(runConcurrentTasks(Pool, concurrency))
    /\ UNCHANGED <<callVars, concurrency, urls, file, gitDir, nextUrl, gitL, gi, gitBusy,
                   gitLog, gitCmds, stale, ret>>

\* the worker whose await newDl() is pending on task t resumes its loop
resume(st, t) ==
    LET ws == {w \in Workers : st.wcur[w] = t}
    IN  IF ws = {} THEN st
        ELSE worker(st, CHOOSE w \in ws : TRUE)

setRes(l, r) == [l EXCEPT ![Len(l)].res = r]

\* fetchFile lines 356-381: an OK response with a body arrives and the
\* destination is opened with create/truncate
FetchOpen(t) ==
    /\ phase \in {"http", "git"}
    /\ tph[t] = "fetching"
    /\ file' = [file EXCEPT ![t] = "partial"]
    /\ tph' = [tph EXCEPT ![t] = "body"]
    /\ UNCHANGED <<callVars, concurrency, urls, gitDir, phase, nextUrl, counts, httpL, gitL, log, taken,
                   wcur, wdone, gi, gitBusy, gitLog, gitCmds, stale, ret>>

\* fetchFile lines 383-402 and newDl lines 852-854 / 873-875: the body was read
\* to its end, the task is counted and the worker goes on
BodyDone(t, content) ==
    /\ phase \in {"http", "git"}
    /\ tph[t] = "body"
    /\ file' = [file EXCEPT ![t] = content]
    /\ SetPool(resume([Pool EXCEPT !.log[t] = setRes(@, "ok"),
                                   !.counts = deCount(@, urls[t].name),
                                   !.tph[t] = "ok"], t))
    /\ UNCHANGED <<callVars, concurrency, urls, gitDir, phase, nextUrl, gitL, gi, gitBusy, gitLog, gitCmds, stale, ret>>

\* variant: the catch block does not remove the file
cleanup_keep(content) == content

\* fetchFile lines 403-412: what the catch block leaves at the destination path
\* (the file is closed and Deno.remove(path) is awaited before the error is
\* raised again)
cleanup(content) == "none"

\* variant: the retry is made whether or not the url had been rewritten
afterError_alwaysRetry(st, t, why) ==
    LET fileUrl == P(t).url
    IN  IF Len(st.log[t]) = 1
        THEN [st EXCEPT !.log[t] = Append(setRes(@, "fail"), [url |-> fileUrl, res |-> "pending"]),
                        !.tph[t] = "fetching"]
        ELSE resume([st EXCEPT !.log[t] = setRes(@, why), !.tph[t] = "failed"], t)

\* newDl lines 855-891: fetchFile raised; retry on the original url when the
\* url had been rewritten, else the task has failed. The log keeps where the
\* last attempt broke ("noBody": before the body, "midBody": inside it).
afterError(st, t, why) ==
    LET fileUrl == P(t).url
        nurl == urlMapping(fileUrl, "http")
    IN  IF Len(st.log[t]) = 1 /\ nurl # fileUrl
        THEN [st EXCEPT !.log[t] = Append(setRes(@, "fail"), [url |-> fileUrl, res |-> "pending"]),
                        !.tph[t] = "fetching"]
        ELSE resume([st EXCEPT !.log[t] = setRes(@, why), !.tph[t] = "failed"], t)

\* fetchFile lines 356-371 raising: fetch rejects, the status is not OK, or
\* the response has no body; nothing was opened
FetchFail(t) ==
    /\ phase \in {"http", "git"}
    /\ tph[t] = "fetching"
    /\ file' = [file EXCEPT ![t] = cleanup(file[t])]
    /\ SetPool(afterError(Pool, t, "noBody"))
    /\ UNCHANGED <<callVars, concurrency, urls, gitDir, phase, nextUrl, gitL, gi, gitBusy, gitLog, gitCmds, stale, ret>>

\* fetchFile lines 384/391 raising: a read or a write fails in the middle of the body
BodyFail(t) ==
    /\ phase \in {"http", "git"}
    /\ tph[t] = "body"
    /\ file' = [file EXCEPT ![t] = cleanup(file[t])]
    /\ SetPool(afterError(Pool, t, "midBody"))
    /\ UNCHANGED <<callVars, concurrency, urls, gitDir, phase, nextUrl, gitL, gi, gitBusy, gitLog, gitCmds, stale, ret>>

\* ------------------------------------------------------------- git stage
\* variant: git remote set-url leaves origin as it is
setUrl_keep(d, u) == d

\* setUrl (lines 441-447): git remote set-url origin u in the directory
setUrl(d, u) == [d EXCEPT !.origin = u]

\* one git command of a fetchGit call: what ran and, for pull, the origin it
\* ran against, for clone, the url it was given
GitCmd(c, at) == [cmd |-> c, at |-> at]

\* lines 474-491: git clone url path, then origin is set to srcUrl when the
\* exit status is 0; a failed clone is only printed.  before: the commands
\* the call has run so far.  A clone that fails leaves no directory.
gitClone(url, srcUrl, o, before) ==
    IF o.clone
    THEN [dir |-> setUrl([st |-> "repo", origin |-> url], srcUrl),
          threw |-> FALSE, ok |-> TRUE,
          cmds |-> Append(before, GitCmd("clone", url))]
    ELSE [dir |-> [st |-> "absent", origin |-> <<>>],
          threw |-> FALSE, ok |-> FALSE,
          cmds |-> Append(before, GitCmd("clone", url))]

\* fetchGit (lines 425-492) as called by downloadAssets (no force option).
\* d is the directory at the destination; o says what the git commands do:
\* o.spawn: the git binary can be started, o.pullErr: git pull wrote to stderr,
\* o.clone: the exit status of git clone is 0.
\* Result: the directory afterwards, whether fetchGit raised, whether a
\* repository was obtained (pull without stderr output, or clone exit status
\* 0), and the git commands that ran.
fetchGit(url, srcUrl, d, o) ==
    IF ~o.spawn
    THEN [dir |-> d, threw |-> TRUE, ok |-> FALSE, cmds |-> <<>>]
    ELSE IF d.st # "absent"
    THEN IF ~o.pullErr
         THEN [dir |-> setUrl(setUrl(d, url), srcUrl), threw |-> FALSE, ok |-> TRUE,
               cmds |-> <<GitCmd("pull", setUrl(d, url).origin)>>]
         ELSE gitClone(url, srcUrl, o,
                       <<GitCmd("pull", setUrl(d, url).origin), GitCmd("rm", <<>>)>>)
    ELSE gitClone(url, srcUrl, o, <<>>)

GitOutcomes ==
    [spawn : BOOLEAN, pullErr : BOOLEAN, clone : BOOLEAN]

\* variant: runConcurrentTasks is not awaited
runConcurrentTasksResolved_noAwait == TRUE

\* await runConcurrentTasks(downloadConcurrent) (lines 824, 898) has resolved
runConcurrentTasksResolved == \A w \in Workers : wdone[w]

\* lines 900-903: the git loop reaches its next entry and calls fetchGit
GitStart ==
    /\ phase \in {"http", "git"}
    /\ runConcurrentTasksResolved
    /\ ~gitBusy
    /\ gi <= Len(gitL)
    /\ phase' = "git"
    /\ gitBusy' = TRUE
    /\ gitLog' = Append(gitLog, gitL[gi])
    /\ tph' = [tph EXCEPT ![gitL[gi]] = "gitrun"]
    /\ UNCHANGED <<callVars, concurrency, urls, file, gitDir, nextUrl, counts, httpL, gitL, log,
                   taken, wcur, wdone, gi, gitCmds, stale, ret>>

\* variant: the call of fetchGit is not inside try/catch
gitSettled_noCatch(m, name, r) ==
    IF r.threw
    THEN [counts |-> m, raised |-> TRUE]
    ELSE [counts |-> deCount(m, name), raised |-> FALSE]

\* lines 902-914: fetchGit settles; the task is counted unless fetchGit
\* raised, and the catch block keeps the error from leaving downloadAssets
gitSettled(m, name, r) ==
    IF r.threw
    THEN [counts |-> m, raised |-> FALSE]
    ELSE [counts |-> deCount(m, name), raised |-> FALSE]

GitEnd(o) ==
    /\ phase = "git"
    /\ gitBusy
    /\ LET t == gitL[gi]
           fileUrl == P(t).url
           r == fetchGit(urlMapping(fileUrl, "git"), fileUrl, gitDir[t], o)
       IN  /\ gitDir' = [gitDir EXCEPT ![t] = r.dir]
           /\ gitCmds' = [gitCmds EXCEPT ![t] = r.cmds]
           /\ counts' = gitSettled(counts, urls[t].name, r).counts
           /\ phase' = IF gitSettled(counts, urls[t].name, r).raised THEN "raised" ELSE phase
           /\ tph' = [tph EXCEPT ![t] = IF r.threw THEN "gitthrew"
                                        ELSE IF r.ok THEN "gitok" ELSE "gitfailed"]
    /\ gi' = gi + 1
    /\ gitBusy' = FALSE
    /\ UNCHANGED <<callVars, concurrency, urls, file, nextUrl, httpL, gitL, log, taken,
                   wcur, wdone, gitLog, stale, ret>>

\* lines 917-919
Return ==
    /\ phase \in {"http", "git"}
    /\ runConcurrentTasksResolved
    /\ ~gitBusy
    /\ gi > Len(gitL)
    /\ phase' = "done"
    /\ ret' = readyNames(counts)
    /\ UNCHANGED <<callVars, concurrency, urls, file, gitDir, nextUrl, counts, httpL, gitL, tph,
                   log, taken, wcur, wdone, gi, gitBusy, gitLog, gitCmds, stale>>

\* downloadAssets is called again on the same entries, with the files and
\* directories the previous run left
Rerun ==
    /\ phase = "done"
    /\ phase' = "prep"
    /\ nextUrl' = 1
    /\ counts' = countTasks(urls, <<>>)
    /\ httpL' = <<>>
    /\ gitL' = <<>>
    /\ tph' = [t \in Tasks |-> "new"]
    /\ log' = [t \in Tasks |-> <<>>]
    /\ taken' = [t \in Tasks |-> 0]
    /\ wcur' = [w \in Workers |-> 0]
    /\ wdone' = [w \in Workers |-> FALSE]
    /\ gi' = 1
    /\ gitBusy' = FALSE
    /\ gitLog' = <<>>
    /\ gitCmds' = [t \in Tasks |-> <<>>]
    /\ stale' = {}
    /\ ret' = <<>>
    /\ UNCHANGED <<callVars, concurrency, urls, file, gitDir>>

Next ==
    \/ Prepare
    \/ StartPool
    \/ \E t \in Tasks : FetchOpen(t)
    \/ \E t \in Tasks : FetchFail(t)
    \/ \E t \in Tasks, c \in {"good", "bad"} : BodyDone(t, c)
    \/ \E t \in Tasks : BodyFail(t)
    \/ GitStart
    \/ \E o \in GitOutcomes : GitEnd(o)
    \/ Return
    \/ Rerun

Spec == Init /\ [][Next]_vars

\* the steps of one call of downloadAssets: all of Next but Rerun
Step ==
    \/ Prepare
    \/ StartPool
    \/ \E t \in Tasks : FetchOpen(t)
    \/ \E t \in Tasks : FetchFail(t)
    \/ \E t \in Tasks, c \in {"good", "bad"} : BodyDone(t, c)
    \/ \E t \in Tasks : BodyFail(t)
    \/ GitStart
    \/ \E o \in GitOutcomes : GitEnd(o)
    \/ Return

\* build.download.concurrent is read from config.json unchecked (line 168):
\* the same machine, started with any number 0, 1, 2, ... of workers; every
\* fetch and every git command settles and the event loop runs what is ready
InitAnyN ==
    /\ concurrency \in 0..MaxWorkers
    /\ urls \in TaskLists
    /\ file = [t \in DOMAIN urls |-> "none"]
    /\ gitDir = [t \in DOMAIN urls |-> NoDir]
    /\ RunStart(urls)
    /\ NoCall

SpecAnyN == InitAnyN /\ [][Next]_vars /\ WF_vars(Step)

TypeOK ==
    /\ phase \in {"prep", "http", "git", "done", "raised"}
    /\ \A t \in Tasks : file[t] \in {"none", "partial", "good", "bad"}
    /\ \A t \in Tasks : taken[t] \in 0..2


\* ------------------------------------------------------------ vocabulary
Names(q) == {q[j] : j \in 1..Len(q)}

isHttpTask(t) == isHttpUrl(P(t).url) /\ P(t).type = "http"
isGitTask(t) == isHttpUrl(P(t).url) /\ P(t).type = "git"

\* the task cannot fail or has ended well: a source that is not a url, a
\* verified existing file, a completed fetch, a pull or clone that worked
Succeeded(t) == tph[t] \in {"local", "skipped", "ok", "gitok"}

Verifiable(t) == urls[t].sum.value \notin {"", "SKIP"}

\* the file at the destination has the declared digest
Matches(t) == file[t] # "none" /\ Verifiable(t) /\ Digest(file[t]) = urls[t].sum.value

\* taken from the queue and not yet finished
InFlight == {t \in Tasks : tph[t] \in {"fetching", "body"}}

Attempted(t) ==
    IF isHttpTask(t) THEN tph[t] = "skipped" \/ Len(log[t]) >= 1
    ELSE IF isGitTask(t) THEN t \in Names(gitLog)
    ELSE TRUE

C2_MirrorThenOriginalOnce ==
    \A t \in Tasks :
        LET fileUrl == P(t).url
            n == Len(log[t])
        IN  /\ n <= 2
            /\ n >= 1 => log[t][1].url = urlMapping(fileUrl, "http")
            /\ n = 2 => /\ log[t][1].res = "fail"
                        /\ log[t][1].url # fileUrl
                        /\ log[t][2].url = fileUrl
            /\ tph[t] \in {"ok", "failed"} =>
                  /\ n >= 1
                  /\ (log[t][1].url = fileUrl => n = 1)
                  /\ (log[t][1].res = "ok" => n = 1)
                  /\ (log[t][1].res # "ok" /\ log[t][1].url # fileUrl => n = 2)
                  /\ (tph[t] = "failed" <=> log[t][n].res \in {"noBody", "midBody"})

C2_Witness ==
    \E t \in Tasks : tph[t] = "failed" /\ Len(log[t]) = 2 /\ log[t][2].url = P(t).url

\* C3: downloadAssets never raises, and when it has returned every queued
\* HTTP task and every git task has been attempted, whatever failed.
C3_FailureNeverAborts ==
    /\ phase # "raised"
    /\ phase = "done" => \A t \in Tasks : Attempted(t)

C3_Witness ==
    /\ phase = "done"
    /\ \E a, b \in Tasks :
          /\ a # b
          /\ tph[a] \in {"failed", "gitthrew"}
          /\ tph[b] \in {"ok", "failed", "gitok", "gitthrew"}

\* C4: every queued task is either still in the list or has been taken, and
\* taken once, by one worker; when downloadAssets has returned the list is
\* empty.
C4_ExactlyOnce ==
    /\ \A t \in Tasks :
          /\ taken[t] <= 1
          /\ (tph[t] = "queued") <=> (t \in Names(httpL))
          /\ tph[t] = "queued" => taken[t] = 0
          /\ tph[t] \in {"fetching", "body", "ok", "failed"} => taken[t] = 1
          /\ tph[t] \in {"fetching", "body"} =>
                Cardinality({w \in Workers : wcur[w] = t}) = 1
    /\ \A a, b \in 1..Len(httpL) : a # b => httpL[a] # httpL[b]
    /\ phase = "done" => httpL = <<>>

C4_Witness ==
    \E a, b \in Workers : a # b /\ wcur[a] # 0 /\ wcur[b] # 0 /\ wcur[a] # wcur[b]

\* C5: at most concurrency tasks are in flight
C5_AtMostNInFlight == Cardinality(InFlight) <= concurrency

C5_Witness ==
    /\ Cardinality(InFlight) = concurrency
    /\ httpL # <<>>
    /\ \E t \in InFlight : Len(log[t]) = 2

\* C6: once a git task has started every HTTP task has finished; a git task
\* starts only when the one before it has settled; git tasks start in the
\* order of their source entries.
C6_GitAfterHttpInOrder ==
    /\ gitLog # <<>> =>
          \A t \in Tasks : isHttpTask(t) => tph[t] \in {"skipped", "ok", "failed"}
    /\ Cardinality({t \in Tasks : tph[t] = "gitrun"}) <= 1
    /\ \A a, b \in 1..Len(gitLog) :
          a < b => /\ gitLog[a] < gitLog[b]
                   /\ tph[gitLog[a]] \in {"gitok", "gitfailed", "gitthrew"}
    /\ \A t \in Tasks : isGitTask(t) /\ t \notin Names(gitLog) =>
          \A u \in Names(gitLog) : u < t

C6_Witness ==
    /\ gitLog # <<>>
    /\ \E t \in Tasks : isHttpTask(t) /\ tph[t] \in {"ok", "failed"} /\ Len(log[t]) = 2

AllAttempted == httpL = <<>> /\ InFlight = {} /\ \A t \in Tasks : Attempted(t)

\* C7 as stated: for every configured concurrency, when downloadAssets has
\* returned the queue is empty, nothing is in flight and every task was
\* attempted.
C7_AnyLimitAllAttempted == phase = "done" => AllAttempted

\* C7: with at least one worker, every call of downloadAssets returns, and
\* when it has returned the queue is empty, nothing is in flight and every
\* HTTP task that was not skipped and every git task has been attempted.
C7_ReturnsWithAllAttempted ==
    /\ [](concurrency >= 1 /\ phase = "done" => AllAttempted)
    /\ (concurrency >= 1 /\ phase # "done") ~> (phase = "done")

\* more workers than queued tasks
C7_Witness ==
    /\ phase = "done"
    /\ concurrency > Cardinality({t \in Tasks : isHttpTask(t) /\ tph[t] # "skipped"})
    /\ \E t \in Tasks : isHttpTask(t) /\ tph[t] \in {"ok", "failed"}

\* C8: an existing file with the declared digest is skipped: no fetch is
\* made for the task and it is counted; a task that is queued has no such
\* file, is fetched before downloadAssets returns, and the old content is
\* gone as soon as a response body is being written.
C8_VerifiedFileNeverFetched ==
    \A t \in Tasks : isHttpTask(t) /\ nextUrl > t =>
        /\ tph[t] \in {"skipped", "queued", "fetching", "body", "ok", "failed"}
        /\ tph[t] = "skipped" => Matches(t) /\ log[t] = <<>> /\ taken[t] = 0
        /\ (tph[t] = "queued" \/ (tph[t] = "fetching" /\ Len(log[t]) = 1)) => ~Matches(t)
        /\ tph[t] = "body" => file[t] = "partial"
        /\ phase = "done" /\ tph[t] # "skipped" => Len(log[t]) >= 1
        /\ phase = "done" /\ (\A u \in Tasks : urls[u].name = urls[t].name => tph[u] = "skipped")
              => urls[t].name \in Names(ret)

C8_Witness ==
    /\ phase = "done"
    /\ \E a, b \in Tasks :
          /\ tph[a] = "skipped" /\ log[a] = <<>>
          /\ b \in stale /\ tph[b] = "ok"

\* C9: a task whose existing file had another digest than declared and
\* whose fetched file has another digest than declared keeps its package
\* out of the result.
C9_SecondMismatchExcludes ==
    phase = "done" =>
        \A t \in stale :
            tph[t] = "ok" /\ ~Matches(t) => urls[t].name \notin Names(ret)

\* C10: a failed task has no file at its destination, and a file that is
\* being written belongs to a task whose body is being read, so the
\* preparation loop of a later run never finds a truncated file.
C10_NoPartialFileAfterFailure ==
    \A t \in Tasks :
        /\ tph[t] = "failed" => file[t] = "none"
        /\ file[t] = "partial" => tph[t] = "body"

C10_Witness ==
    \E t \in Tasks :
        /\ tph[t] = "failed"
        /\ log[t][Len(log[t])].res = "midBody"
        /\ file[t] = "none"

\* the url fetchGit is given for task t, and the url it is to leave as origin
mirrorUrl(t) == urlMapping(P(t).url, "git")
originalUrl(t) == P(t).url

\* the awaited fetchGit call of task t returns (it does not raise) in this step
FetchGitReturns(t) ==
    /\ gitBusy /\ ~gitBusy'
    /\ gi <= Len(gitL) /\ t = gitL[gi]
    /\ tph'[t] \in {"gitok", "gitfailed"}

CloneCount(cs) == Cardinality({k \in 1..Len(cs) : cs[k].cmd = "clone"})

\* C11: a fetchGit call that finds a directory at the destination runs git
\* pull first, against an origin that is the mirror-rewritten url, and clones
\* only after that pull failed and the directory was removed; and whenever a
\* repository is at the destination after a step, its origin is the original
\* url.
C11_PullOnMirrorOriginRestored ==
    [][\A t \in Tasks :
         /\ (FetchGitReturns(t) /\ gitDir[t].st # "absent") =>
                /\ Len(gitCmds'[t]) \in {1, 3}
                /\ gitCmds'[t][1] = GitCmd("pull", mirrorUrl(t))
                /\ Len(gitCmds'[t]) = 3 =>
                      /\ gitCmds'[t][2].cmd = "rm"
                      /\ gitCmds'[t][3] = GitCmd("clone", mirrorUrl(t))
         /\ gitDir'[t].st = "repo" => gitDir'[t].origin = originalUrl(t)]_vars

\* a pull ran against the mirror, which differs from the original url, and the
\* repository is left with the original url as origin
C11_Witness ==
    \E t \in Tasks :
        /\ tph[t] = "gitok"
        /\ gitCmds[t] = <<GitCmd("pull", mirrorUrl(t))>>
        /\ mirrorUrl(t) # originalUrl(t)
        /\ gitDir[t] = [st |-> "repo", origin |-> originalUrl(t)]

\* C12: a fetchGit call whose git clone failed has removed the directory and
\* run git clone a second time, and no more.
C12_FailedCloneRetriedOnce ==
    \A t \in Tasks :
        tph[t] = "gitfailed" =>
            /\ CloneCount(gitCmds[t]) = 2
            /\ \E k \in 1..Len(gitCmds[t]) - 2 :
                  /\ gitCmds[t][k].cmd = "clone"
                  /\ gitCmds[t][k + 1].cmd = "rm"
                  /\ gitCmds[t][k + 2].cmd = "clone"

\* ------------------------------------------------ urlMapping on its own
\* downloadAssets is not running
IdleFetcher ==
    /\ concurrency = 1
    /\ urls = <<>>
    /\ file = <<>>
    /\ gitDir = <<>>
    /\ RunStart(<<>>)

\* rules a build.mirrorList can hold: the two default github rules, a chain
\* of two host rules, and one pattern as a RegExp and as literal text
MirrorRules ==
    { urlMappingList[2], urlMappingList[3],
      [src |-> <<"github.com">>, type |-> "http", regex |-> FALSE,
       to |-> <<"gitclone.com">>],
      [src |-> <<"gitclone.com">>, type |-> "http", regex |-> FALSE,
       to |-> <<"mirror.example">>],
      [src |-> <<"https://", AnySegment>>, type |-> "http", regex |-> TRUE,
       to |-> <<"https://", "proxy.example">>],
      [src |-> <<"https://", AnySegment>>, type |-> "http", regex |-> FALSE,
       to |-> <<"https://", "proxy.example">>] }

RuleLists == UNION { [1..n -> MirrorRules] : n \in 0..MaxRules }

MapUrls ==
    { SrcMirrored, SrcDirect,
      <<"https://", "gitclone.com", "/", "r">>,
      <<"https://", "example.org", "/", AnySegment>>,
      <<"https://", "github.com", "/", "github.com">> }

InitUrlMapping ==
    /\ IdleFetcher
    /\ fn = "urlMapping"
    /\ arg \in [list : RuleLists, url : MapUrls, type : {"http", "git"}]
    /\ out = <<>>

\* urlMapping is applied to the url, then to its own result
UrlMappingCall ==
    /\ fn = "urlMapping"
    /\ Len(out) < MaxApply
    /\ out' = Append(out, urlMappingFrom(arg.list, 1,
                                         IF out = <<>> THEN arg.url ELSE out[Len(out)],
                                         arg.type))
    /\ UNCHANGED <<fn, arg, dlVars>>

NextUrlMapping == UrlMappingCall

SpecUrlMapping == InitUrlMapping /\ [][NextUrlMapping]_vars

\* the text of u at position p is what rule r looks for
PortionMatches(r, u, p) ==
    /\ p + Len(r.src) - 1 <= Len(u)
    /\ \A j \in 1..Len(r.src) :
          IF r.regex /\ r.src[j] = AnySegment
          THEN u[p + j - 1] \notin Separators
          ELSE u[p + j - 1] = r.src[j]

Accepts(r, u) == \E p \in 1..Len(u) : PortionMatches(r, u, p)

\* the rules of list that urlMapping may apply to u for transport t
Applicable(list, u, t) ==
    {k \in 1..Len(list) : list[k].type = t /\ Accepts(list[k], u)}

NoSelfRematch ==
    \A k \in 1..Len(arg.list) :
        \A u \in {arg.url} \cup {out[j] : j \in 1..Len(out)} :
            Accepts(arg.list[k], u) => ~Accepts(arg.list[k], ruleReplace(arg.list[k], u))

\* C14 as stated: when no rule re-matches its own result, applying urlMapping
\* to its result gives the same url.
C14_IdempotentNoSelfRematch ==
    (fn = "urlMapping" /\ Len(out) >= 2 /\ NoSelfRematch) => out[2] = out[1]

\* C14: when the result of urlMapping matches no rule of the requested
\* transport, applying urlMapping to it gives the same url.
C14_IdempotentNoRuleRematch ==
    (fn = "urlMapping" /\ Len(out) >= 2
       /\ Applicable(arg.list, out[1], arg.type) = {}) => out[2] = out[1]

\* a rule was applied, and the second application changed nothing
C14_Witness ==
    /\ fn = "urlMapping" /\ Len(out) >= 2
    /\ Applicable(arg.list, arg.url, arg.type) # {}
    /\ Applicable(arg.list, out[1], arg.type) = {}
    /\ out[1] # arg.url
    /\ out[2] = out[1]

\* ------------------------------------------------------- metadata parser
\* A definition text is the sequence of its lines, joined by "\n".  A line
\* is "key = value" (eq), or a line without "=", or the empty line.  Keys are
\* token sequences (<<"sha256", "sums", "_x86_64">>), values are texts.
Line(k, v) == [eq |-> TRUE, key |-> k, value |-> v]
Blank == [eq |-> FALSE, key |-> <<>>, value |-> ""]
Comment == [eq |-> FALSE, key |-> <<"#">>, value |-> ""]
NL == [eq |-> FALSE, key |-> <<"\n">>, value |-> ""]

sumK == <<"b2", "sha512", "sha384", "sha256", "sha224", "sha1">>

justStr == { <<"pkgname">>, <<"pkgver">>, <<"pkgrel">>, <<"epoch">>, <<"pkgdesc">>,
             <<"url">>, <<"license">> }

\* the characters of the text: the lines with a "\n" between neighbours; the
\* empty line has no characters
RECURSIVE textTokens(_)
textTokens(ls) ==
    IF ls = <<>> THEN <<>>
    ELSE (IF ls[1] = Blank THEN <<>> ELSE <<ls[1]>>)
         \o (IF Len(ls) > 1 THEN <<NL>> ELSE <<>>)
         \o textTokens(Tail(ls))

\* data.split("\n\n") (line 545): cut at every pair of "\n", left to right;
\* cur is the piece under construction
RECURSIVE splitBlocks(_, _)
splitBlocks(toks, cur) ==
    IF toks = <<>> THEN <<cur>>
    ELSE IF Len(toks) >= 2 /\ toks[1] = NL /\ toks[2] = NL
    THEN <<cur>> \o splitBlocks(SubSeq(toks, 3, Len(toks)), <<>>)
    ELSE splitBlocks(Tail(toks), Append(cur, toks[1]))

\* x.trim().split("\n") (line 547): the lines of a piece
IsLine(x) == x # NL
blockLines(piece) == SelectSeq(piece, IsLine)

\* a stored value: one string, or a list of strings
Scalar(v) == [list |-> FALSE, v |-> <<v>>]
List(vs) == [list |-> TRUE, v |-> vs]

\* xo[key] of an object kept as its entries in insertion order
ObjGet(m, k) == (CHOOSE e \in {m[j] : j \in 1..Len(m)} : e.k = k).v

\* lines 557-566 when the key is absent from xo (or holds "")
firstValue(key, value) ==
    IF key \notin justStr THEN List(<<value>>) ELSE Scalar(value)

\* lines 556-567: the value stored under key after one more occurrence
storeValue(xo, key, value) ==
    IF ~MapHas(xo, key) THEN firstValue(key, value)
    ELSE IF ObjGet(xo, key).list THEN List(Append(ObjGet(xo, key).v, value))
    ELSE IF ObjGet(xo, key).v[1] # "" THEN List(<<ObjGet(xo, key).v[1], value>>)
    ELSE firstValue(key, value)

\* lines 548-568: one line of a block
parseLine(i, xo) ==
    IF startsWith(i.key, <<"pkgbase">>) THEN MapSet(xo, <<"keyName">>, Scalar(i.value))
    ELSE IF ~i.eq THEN xo
    ELSE IF i.key # <<>> /\ i.value # "" THEN MapSet(xo, i.key, storeValue(xo, i.key, i.value))
    ELSE xo

RECURSIVE parseLines(_, _)
parseLines(ls, xo) ==
    IF ls = <<>> THEN xo ELSE parseLines(Tail(ls), parseLine(ls[1], xo))

\* lines 570-574: every key of block 0 is copied onto the record
RECURSIVE assignKeys(_, _)
assignKeys(pkgbuild, xo) ==
    IF xo = <<>> THEN pkgbuild
    ELSE assignKeys(MapSet(pkgbuild, Head(xo).k, Head(xo).v), Tail(xo))

\* lines 523-535: the record before any block is read
emptyPkgData ==
    << [k |-> <<"keyName">>, v |-> Scalar("")], [k |-> <<"pkgver">>, v |-> Scalar("")],
       [k |-> <<"pkgrel">>, v |-> Scalar("")], [k |-> <<"source">>, v |-> List(<<>>)] >>

\* parsePkgData (lines 504-580): block 0 fills the record, every later block
\* is one entry of children
parsePkgData(data) ==
    CHOOSE r \in { [base |-> assignKeys(emptyPkgData, parseLines(blockLines(bs[1]), <<>>)),
                    children |-> [j \in 1..(Len(bs) - 1) |->
                                     parseLines(blockLines(bs[j + 1]), <<>>)]] :
                   bs \in {splitBlocks(textTokens(data), <<>>)} } : TRUE

\* data[key] ?? [] of a list-valued key
listOr(m, k) == IF MapHas(m, k) THEN ObjGet(m, k).v ELSE <<>>

\* getPkgUrls (lines 674-676)
getPkgUrls(data) == listOr(data.base, <<"source">>) \o listOr(data.base, <<"source", "_x86_64">>)

\* sumK.find(...) (line 678): the first algorithm that some key starts with,
\* "" when there is none; k is the position in sumK
RECURSIVE findSumK(_, _)
findSumK(m, k) ==
    IF k > Len(sumK) THEN ""
    ELSE IF \E j \in 1..Len(m) : startsWith(m[j].k, <<sumK[k]>>) THEN sumK[k]
    ELSE findSumK(m, k + 1)

\* variant: the list of the architecture is not appended
getPkgSums_baseOnly(data) ==
    IF findSumK(data.base, 1) = "" THEN [type |-> "", sum |-> <<>>]
    ELSE [type |-> findSumK(data.base, 1),
          sum |-> listOr(data.base, <<findSumK(data.base, 1), "sums">>)]

\* getPkgSums (lines 677-687)
getPkgSums(data) ==
    IF findSumK(data.base, 1) = "" THEN [type |-> "", sum |-> <<>>]
    ELSE [type |-> findSumK(data.base, 1),
          sum |-> listOr(data.base, <<findSumK(data.base, 1), "sums">>)
                  \o listOr(data.base, <<findSumK(data.base, 1), "sums", "_x86_64">>)]

\* lines 1078-1084: the fetch tasks of package name
pkgTasks(name, data) ==
    [n \in 1..Len(getPkgUrls(data)) |->
        [name |-> name, url |-> getPkgUrls(data)[n],
         sum |-> [type |-> getPkgSums(data).type,
                  value |-> IF n <= Len(getPkgSums(data).sum)
                            THEN getPkgSums(data).sum[n] ELSE ""]]]

\* the lines a definition text is drawn from
MetaLines ==
    { Blank, Comment, Line(<<"pkgver">>, ""),
      Line(<<"pkgbase">>, "foo"), Line(<<"pkgname">>, "foo"),
      Line(<<"source">>, "u1"), Line(<<"source">>, "u3"),
      Line(<<"source", "_x86_64">>, "u2"),
      Line(<<"sha256", "sums">>, "h1"), Line(<<"sha256", "sums", "_x86_64">>, "h2"),
      Line(<<"sha512", "sums">>, "h3") }

MetaTexts == UNION { [1..n -> MetaLines] : n \in 0..MaxLines }

InitParse ==
    /\ IdleFetcher
    /\ fn = "parsePkgData"
    /\ arg \in MetaTexts
    /\ out = <<>>

\* line 1071: the definition text of a package is parsed
ParseCall ==
    /\ fn = "parsePkgData"
    /\ out = <<>>
    /\ out' = <<parsePkgData(arg)>>
    /\ UNCHANGED <<fn, arg, dlVars>>

\* lines 1078-1084: the fetch tasks are built from the parsed record
PkgTasksCall ==
    /\ fn = "parsePkgData"
    /\ Len(out) = 1
    /\ out' = Append(out, pkgTasks("pkgA", out[1]))
    /\ UNCHANGED <<fn, arg, dlVars>>

NextParse == ParseCall \/ PkgTasksCall

SpecParse == InitParse /\ [][NextParse]_vars

\* a scalar field of a record, "" when absent (an absent pkgname prints as
\* "undefined" in the archive name)
fieldOr(m, k, d) == IF MapHas(m, k) THEN ObjGet(m, k).v[1] ELSE d

\* getPkgVersion (lines 582-587): [epoch:]pkgver[-pkgrel]
getPkgVersion(data) ==
    (IF fieldOr(data.base, <<"epoch">>, "") # ""
     THEN <<fieldOr(data.base, <<"epoch">>, ""), ":">> ELSE <<>>)
    \o <<fieldOr(data.base, <<"pkgver">>, "")>>
    \o (IF fieldOr(data.base, <<"pkgrel">>, "") # ""
        THEN <<"-", fieldOr(data.base, <<"pkgrel">>, "")>> ELSE <<>>)

\* getArch (lines 589-594)
getArch(arch, defaultArch) ==
    IF arch = <<>> THEN defaultArch
    ELSE IF \E j \in 1..Len(arch) : arch[j] = "any" THEN "any"
    ELSE IF \E j \in 1..Len(arch) : arch[j] = defaultArch THEN defaultArch
    ELSE arch[1]

thisArch == "x86_64"

\* getPkgNames (lines 596-602): one archive name for every entry of children
getPkgNames(data) ==
    [j \in 1..Len(data.children) |->
        <<fieldOr(data.children[j], <<"pkgname">>, "undefined"), "-">>
        \o getPkgVersion(data)
        \o <<"-", getArch(listOr(data.children[j], <<"arch">>),
                          getArch(listOr(data.base, <<"arch">>), thisArch)),
             ".pkg.tar.zst">>]

\* the text has an empty line with a line before it and a line after it: the
\* "\n\n" at which the text is cut into blocks
HasBlockBreak(text) == \E j \in 2..(Len(text) - 1) : text[j] = Blank

\* the lines of block 0
BaseLines(text) ==
    IF HasBlockBreak(text)
    THEN SubSeq(text, 1, (CHOOSE j \in 2..(Len(text) - 1) :
                            /\ text[j] = Blank
                            /\ \A h \in 2..(j - 1) : text[h] # Blank) - 1)
    ELSE text

\* the values that the lines of ls give to key, in the order of the lines
RECURSIVE ValuesOf(_, _)
ValuesOf(ls, key) ==
    IF ls = <<>> THEN <<>>
    ELSE (IF ls[1].eq /\ ls[1].key = key /\ ls[1].value # ""
          THEN <<ls[1].value>> ELSE <<>>) \o ValuesOf(Tail(ls), key)

\* C15: a definition text without a child block is parsed into a record with
\* one variant, named as the base, and one archive name is derived from it.
C15_NoChildOneVariant ==
    (fn = "parsePkgData" /\ Len(out) >= 1 /\ ~HasBlockBreak(arg)) =>
        /\ Len(out[1].children) = 1
        /\ Len(getPkgNames(out[1])) = 1
        /\ fieldOr(out[1].children[1], <<"pkgname">>, "undefined")
              = fieldOr(out[1].base, <<"keyName">>, "")

\* all blocks of a parsed record
ParsedBlocks(data) == {data.base} \cup {data.children[j] : j \in 1..Len(data.children)}

\* C16: in every parsed block the value under an always-scalar key is one
\* string, not a list.
C16_AlwaysScalarNeverList ==
    (fn = "parsePkgData" /\ Len(out) >= 1) =>
        \A b \in ParsedBlocks(out[1]) : \A k \in justStr :
            MapHas(b, k) => ~ObjGet(b, k).list

\* the first algorithm of sumK for which block 0 gives a value to a key that
\* starts with its name, "" when there is none
ActiveSum(ls) ==
    IF \E a \in 1..Len(sumK) : \E j \in 1..Len(ls) :
           ls[j].eq /\ ls[j].value # "" /\ startsWith(ls[j].key, <<sumK[a]>>)
    THEN sumK[CHOOSE a \in 1..Len(sumK) :
                 /\ \E j \in 1..Len(ls) :
                       ls[j].eq /\ ls[j].value # "" /\ startsWith(ls[j].key, <<sumK[a]>>)
                 /\ \A b \in 1..(a - 1) : \A j \in 1..Len(ls) :
                       ~(ls[j].eq /\ ls[j].value # "" /\ startsWith(ls[j].key, <<sumK[b]>>))]
    ELSE ""

DepNames == {"cmake", "glibc", "qt5"}

DepLists == { <<>>, <<"cmake">>, <<"glibc">>, <<"qt5">>, <<"cmake", "glibc">> }

\* optional and check dependencies of a package, as the index reports them
OtherDeps ==
    { [OptDepends |-> <<>>, CheckDepends |-> <<>>],
      [OptDepends |-> <<"doc">>, CheckDepends |-> <<"cmake", "doc">>] }

PkgInfo(n) ==
    { [name |-> n, MakeDepends |-> m, Depends |-> d,
       OptDepends |-> o.OptDepends, CheckDepends |-> o.CheckDepends] :
      m \in DepLists, d \in DepLists, o \in OtherDeps }

Selections ==
    { <<a>> : a \in PkgInfo("pkgA") }
    \cup { <<a, b>> : a \in PkgInfo("pkgA"), b \in PkgInfo("pkgB") }

keys(m) == [j \in 1..Len(m) |-> m[j].k]

\* variant: the set of a dependency is started anew on every call
addDep_fresh(depMap, name, dep) == MapSet(depMap, dep, {name})

\* addDep (lines 1154-1158)
addDep(depMap, name, dep) ==
    MapSet(depMap, dep, (IF MapHas(depMap, dep) THEN ObjGet(depMap, dep) ELSE {}) \cup {name})

\* addDep(name, i) for every i of deps
RECURSIVE addDeps(_, _, _)
addDeps(depMap, name, deps) ==
    IF deps = <<>> THEN depMap
    ELSE addDeps(addDep(depMap, name, Head(deps)), name, Tail(deps))

\* lines 1159-1169: the loop over the selected packages
RECURSIVE buildDepMap(_, _)
buildDepMap(nl, depMap) ==
    IF nl = <<>> THEN depMap
    ELSE buildDepMap(Tail(nl),
                     addDeps(addDeps(depMap, Head(nl).name, Head(nl).MakeDepends),
                             Head(nl).name, Head(nl).Depends))

\* checkPkgBuildDeps and checkPkgInOfficial (lines 940-961): the names for
\* which pacman succeeds, in the order asked; ok is the set pacman knows
RECURSIVE checkPkg(_, _)
checkPkg(names, ok) ==
    IF names = <<>> THEN <<>>
    ELSE (IF Head(names) \in ok THEN <<Head(names)>> ELSE <<>>) \o checkPkg(Tail(names), ok)

\* variant: every key of the map is kept
needInstall_all(depMap, hadInstalled) == keys(depMap)

\* lines 1171-1173: the keys that checkPkgBuildDeps did not return
needInstall(depMap, hadInstalled) ==
    checkPkg(keys(depMap), Names(keys(depMap)) \ Names(hadInstalled))

\* lines 1189-1196: the argument of installWithOutCheckDep
toInstall(need, inOfficial) ==
    [j \in 1..Len(need) |-> [name |-> need[j], official |-> need[j] \in Names(inOfficial)]]

InitDeps ==
    /\ IdleFetcher
    /\ fn = "update"
    /\ arg \in Selections
    /\ out = <<>>

\* lines 1153-1169
DepMapBuild ==
    /\ fn = "update"
    /\ out = <<>>
    /\ out' = <<buildDepMap(arg, <<>>)>>
    /\ UNCHANGED <<fn, arg, dlVars>>

\* line 1170: pacman -Q succeeds for the names in ok
ProbeLocal(ok) ==
    /\ fn = "update"
    /\ Len(out) = 1
    /\ out' = Append(out, [asked |-> keys(out[1]), got |-> checkPkg(keys(out[1]), ok)])
    /\ UNCHANGED <<fn, arg, dlVars>>

\* line 1174: pacman -Si succeeds for the names in ok
ProbeOfficial(ok) ==
    /\ fn = "update"
    /\ Len(out) = 2
    /\ out' = Append(out, [asked |-> needInstall(out[1], out[2].got),
                           got |-> checkPkg(needInstall(out[1], out[2].got), ok)])
    /\ UNCHANGED <<fn, arg, dlVars>>

\* lines 1175-1197: when a name is left the user is asked, and on yes
\* installWithOutCheckDep is called
PassOn(installDep) ==
    /\ fn = "update"
    /\ Len(out) = 3
    /\ out' = Append(out,
                IF needInstall(out[1], out[2].got) # <<>> /\ installDep
                THEN [called |-> TRUE,
                      names |-> toInstall(needInstall(out[1], out[2].got), out[3].got)]
                ELSE [called |-> FALSE, names |-> <<>>])
    /\ UNCHANGED <<fn, arg, dlVars>>

NextDeps ==
    \/ DepMapBuild
    \/ \E ok \in SUBSET DepNames : ProbeLocal(ok)
    \/ \E ok \in SUBSET DepNames : ProbeOfficial(ok)
    \/ \E installDep \in BOOLEAN : PassOn(installDep)

SpecDeps == InitDeps /\ [][NextDeps]_vars

\* the names package p declares as build-time or run-time dependencies
Required(p) == Names(p.MakeDepends) \cup Names(p.Depends)

\* C18: depMap has one key for every name in a MakeDepends or Depends list of
\* a selected package and no other key, no key twice, and the value of a key
\* is the set of the selected packages that declare it in one of the two lists.
C18_DepMapIsReverseIndex ==
    (fn = "update" /\ Len(out) >= 1) =>
        /\ Names(keys(out[1])) = UNION {Required(arg[j]) : j \in 1..Len(arg)}
        /\ \A a, b \in 1..Len(out[1]) : out[1][a].k = out[1][b].k => a = b
        /\ \A a \in 1..Len(out[1]) :
              out[1][a].v = {arg[j].name : j \in {h \in 1..Len(arg) : out[1][a].k \in Required(arg[h])}}
        /\ \A j \in 1..Len(arg) :
              \A n \in (Names(arg[j].OptDepends) \cup Names(arg[j].CheckDepends)) :
                  n \notin UNION {Required(arg[h]) : h \in 1..Len(arg)}
                      => n \notin Names(keys(out[1]))

\* two packages share a dependency, and a name that is only an optional
\* dependency is left out
C18_Witness ==
    /\ fn = "update" /\ Len(out) >= 1
    /\ \E a \in 1..Len(out[1]) : out[1][a].k = "cmake" /\ out[1][a].v = {"pkgA", "pkgB"}
    /\ \E j \in 1..Len(arg) : "doc" \in Names(arg[j].OptDepends)
    /\ "doc" \notin Names(keys(out[1]))

\* C19: when the decision is taken, every key of depMap is either returned by
\* the local probe and not handed on, or handed on once, flagged official
\* exactly when the repository probe returned it; the repository probe was
\* asked about the keys the local probe did not return and no others.  Names
\* are handed on when the user agrees.
C19_KeysInOneOfThreeClasses ==
    (fn = "update" /\ Len(out) = 4) =>
        /\ Names(out[3].asked) = Names(keys(out[1])) \ Names(out[2].got)
        /\ Names(out[3].got) \subseteq Names(out[3].asked)
        /\ \A k \in Names(keys(out[1])) :
              IF k \in Names(out[2].got)
              THEN \A j \in 1..Len(out[4].names) : out[4].names[j].name # k
              ELSE out[4].called =>
                     /\ Cardinality({j \in 1..Len(out[4].names) : out[4].names[j].name = k}) = 1
                     /\ \A j \in 1..Len(out[4].names) :
                           out[4].names[j].name = k =>
                              (out[4].names[j].official <=> k \in Names(out[3].got))
        /\ \A j \in 1..Len(out[4].names) : out[4].names[j].name \in Names(keys(out[1]))

\* one key in each class: installed, in the repository, neither
C19_Witness ==
    /\ fn = "update" /\ Len(out) = 4
    /\ out[4].called
    /\ \E a, b, c \in Names(keys(out[1])) :
          /\ a \in Names(out[2].got)
          /\ b \notin Names(out[2].got) /\ b \in Names(out[3].got)
          /\ c \notin Names(out[2].got) /\ c \notin Names(out[3].got)
          /\ \E j, h \in 1..Len(out[4].names) :
                /\ out[4].names[j] = [name |-> b, official |-> TRUE]
                /\ out[4].names[h] = [name |-> c, official |-> FALSE]

\* ------------------------------------------------- parameter expansion
\* (src/unnamed/part_002) Here a string is the sequence of its characters.
IdStart ==
    {"a", "b", "c", "d", "e", "f", "g", "h", "i", "j", "k", "l", "m", "n", "o", "p",
     "q", "r", "s", "t", "u", "v", "w", "x", "y", "z", "_"}
WordChars == IdStart \cup {"0", "1", "2"}
OpChars == {"%", "#", "/", ":"}

\* the length of the longest prefix of s from position k made of chars of cs
RECURSIVE runLen(_, _, _)
runLen(s, k, cs) ==
    IF k > Len(s) THEN 0
    ELSE IF s[k] \in cs THEN 1 + runLen(s, k + 1, cs)
    ELSE 0

\* a replacement string of String.prototype.replace: $$ is one $, $& the
\* matched text, $` the text before the match, $' the text after it
RECURSIVE expandReplacement(_, _, _, _)
expandReplacement(rep, matched, before, after) ==
    IF rep = <<>> THEN <<>>
    ELSE IF Len(rep) >= 2 /\ rep[1] = "$" /\ rep[2] \in {"$", "&", "`", "'"}
    THEN (CASE rep[2] = "$" -> <<"$">>
            [] rep[2] = "&" -> matched
            [] rep[2] = "`" -> before
            [] rep[2] = "'" -> after)
         \o expandReplacement(SubSeq(rep, 3, Len(rep)), matched, before, after)
    ELSE <<rep[1]>> \o expandReplacement(Tail(rep), matched, before, after)

\* s.replace(pat, rep) with strings: the first occurrence of pat
jsReplace(s, pat, rep) ==
    IF indexOf(s, pat) = 0 THEN s
    ELSE splice(s, indexOf(s, pat), Len(pat),
                expandReplacement(rep, pat, SubSeq(s, 1, indexOf(s, pat) - 1),
                                  SubSeq(s, indexOf(s, pat) + Len(pat), Len(s))))

\* position of the first "}" of s after position k, 0 when there is none
RECURSIVE closingBrace(_, _)
closingBrace(s, k) ==
    IF k > Len(s) THEN 0
    ELSE IF s[k] = "}" THEN k
    ELSE closingBrace(s, k + 1)

\* parseAllParamExpansions (lines 332-351): the matches of
\* /\$(?:\{([^}]+)\}|(\w+))/g in str from position k on
RECURSIVE parseAllFrom(_, _)
parseAllFrom(str, k) ==
    IF k > Len(str) THEN <<>>
    ELSE IF str[k] # "$" THEN parseAllFrom(str, k + 1)
    ELSE IF k + 1 <= Len(str) /\ str[k + 1] = "{" /\ closingBrace(str, k + 2) > k + 2
    THEN <<[fullMatch |-> SubSeq(str, k, closingBrace(str, k + 2)),
            expression |-> SubSeq(str, k + 2, closingBrace(str, k + 2) - 1),
            isSimple |-> FALSE]>>
         \o parseAllFrom(str, closingBrace(str, k + 2) + 1)
    ELSE IF runLen(str, k + 1, WordChars) > 0
    THEN <<[fullMatch |-> SubSeq(str, k, k + runLen(str, k + 1, WordChars)),
            expression |-> SubSeq(str, k + 1, k + runLen(str, k + 1, WordChars)),
            isSimple |-> TRUE]>>
         \o parseAllFrom(str, k + runLen(str, k + 1, WordChars) + 1)
    ELSE parseAllFrom(str, k + 1)

parseAllParamExpansions(str) == parseAllFrom(str, 1)

\* rest.split("/"): the text before the first "/" and the text between the
\* first and the second "/"
splitSlash(rest) ==
    IF indexOf(rest, <<"/">>) = 0 THEN <<rest>>
    ELSE <<SubSeq(rest, 1, indexOf(rest, <<"/">>) - 1),
           IF indexOfFrom(rest, <<"/">>, indexOf(rest, <<"/">>) + 1) = 0
           THEN SubSeq(rest, indexOf(rest, <<"/">>) + 1, Len(rest))
           ELSE SubSeq(rest, indexOf(rest, <<"/">>) + 1,
                       indexOfFrom(rest, <<"/">>, indexOf(rest, <<"/">>) + 1) - 1)>>

\* the result of parseComplexExpression; has... tells a field from undefined
Parsed(variable, operator, hasPattern, pattern, hasReplacement, replacement, defaultValue) ==
    [variable |-> variable, operator |-> operator,
     hasPattern |-> hasPattern, pattern |-> pattern,
     hasReplacement |-> hasReplacement, replacement |-> replacement,
     defaultValue |-> defaultValue]

\* lines 366-408, after the regular expression has given variable, operator
\* and rest
parseOperator(variable, operator, rest) ==
    IF operator \in {<<"/">>, <<"/", "/">>}
    THEN IF Len(splitSlash(rest)) >= 2
         THEN Parsed(variable, operator, TRUE, splitSlash(rest)[1], TRUE, splitSlash(rest)[2], <<>>)
         ELSE Parsed(variable, operator, FALSE, <<>>, FALSE, <<>>, <<>>)
    ELSE IF operator = <<":">> /\ rest # <<>>
    THEN IF rest[1] \in {"-", "=", "?", "+"}
         THEN Parsed(variable, <<":", rest[1]>>, FALSE, <<>>, FALSE, <<>>, Tail(rest))
         ELSE Parsed(variable, operator, FALSE, <<>>, FALSE, <<>>, Tail(rest))
    ELSE IF operator # <<>> /\ rest # <<>>
    THEN Parsed(variable, operator, TRUE, rest, FALSE, <<>>, <<>>)
    ELSE Parsed(variable, operator, FALSE, <<>>, FALSE, <<>>, <<>>)

\* the length of the identifier [a-zA-Z_][a-zA-Z0-9_]* at the start of expr
idLen(expr) ==
    IF expr # <<>> /\ expr[1] \in IdStart THEN 1 + runLen(expr, 2, WordChars) ELSE 0

\* parseComplexExpression (lines 353-408)
parseComplexExpression(expr) ==
    IF idLen(expr) = 0
    THEN Parsed(expr, <<>>, FALSE, <<>>, FALSE, <<>>, <<>>)
    ELSE IF idLen(expr) = Len(expr)
    THEN parseOperator(expr, <<>>, <<>>)
    ELSE IF expr[idLen(expr) + 1] \notin OpChars
    THEN Parsed(expr, <<>>, FALSE, <<>>, FALSE, <<>>, <<>>)
    ELSE parseOperator(SubSeq(expr, 1, idLen(expr)),
                       SubSeq(expr, idLen(expr) + 1,
                              idLen(expr) + runLen(expr, idLen(expr) + 1, OpChars)),
                       SubSeq(expr, idLen(expr) + runLen(expr, idLen(expr) + 1, OpChars) + 1,
                              Len(expr)))

endsWith(s, x) == Len(s) >= Len(x) /\ SubSeq(s, Len(s) - Len(x) + 1, Len(s)) = x

\* while (value.endsWith(pattern)) value = value.slice(0, -pattern.length)
RECURSIVE stripAllSuffix(_, _)
stripAllSuffix(value, pattern) ==
    IF endsWith(value, pattern)
    THEN stripAllSuffix(SubSeq(value, 1, Len(value) - Len(pattern)), pattern)
    ELSE value

\* while (value.startsWith(pattern)) value = value.slice(pattern.length)
RECURSIVE stripAllPrefix(_, _)
stripAllPrefix(value, pattern) ==
    IF startsWith(value, pattern)
    THEN stripAllPrefix(SubSeq(value, Len(pattern) + 1, Len(value)), pattern)
    ELSE value

\* value.replace(new RegExp(pattern, "g"), replacement) for a pattern without
\* special characters: every occurrence from position k on, left to right
RECURSIVE replaceAllFrom(_, _, _, _)
replaceAllFrom(value, pattern, replacement, k) ==
    IF indexOfFrom(value, pattern, k) = 0 THEN SubSeq(value, k, Len(value))
    ELSE SubSeq(value, k, indexOfFrom(value, pattern, k) - 1)
         \o expandReplacement(replacement, pattern,
                              SubSeq(value, 1, indexOfFrom(value, pattern, k) - 1),
                              SubSeq(value, indexOfFrom(value, pattern, k) + Len(pattern),
                                     Len(value)))
         \o replaceAllFrom(value, pattern, replacement,
                           indexOfFrom(value, pattern, k) + Len(pattern))

Digits == <<"0", "1", "2", "3", "4", "5", "6", "7", "8", "9">>

\* parseInt(s, 10) of a text of digits; acc is the number read so far
RECURSIVE parseIntFrom(_, _)
parseIntFrom(s, acc) ==
    IF s = <<>> THEN acc
    ELSE IF \E d \in 1..Len(Digits) : Digits[d] = s[1]
    THEN parseIntFrom(Tail(s), acc * Len(Digits) + (CHOOSE d \in 1..Len(Digits) : Digits[d] = s[1]) - 1)
    ELSE acc

\* pattern.split(":"): the text before the first ":" and the text after it
\* up to the next ":"
splitColon(pattern) ==
    IF indexOf(pattern, <<":">>) = 0 THEN <<pattern>>
    ELSE <<SubSeq(pattern, 1, indexOf(pattern, <<":">>) - 1),
           IF indexOfFrom(pattern, <<":">>, indexOf(pattern, <<":">>) + 1) = 0
           THEN SubSeq(pattern, indexOf(pattern, <<":">>) + 1, Len(pattern))
           ELSE SubSeq(pattern, indexOf(pattern, <<":">>) + 1,
                       indexOfFrom(pattern, <<":">>, indexOf(pattern, <<":">>) + 1) - 1)>>

\* value.substring(from, to) with 0-based from (included) and to (excluded)
substring(value, from, to) ==
    SubSeq(value, (IF from > Len(value) THEN Len(value) ELSE from) + 1,
           IF to > Len(value) THEN Len(value) ELSE to)

\* lines 509-524: parts = parsed.pattern?.split(":") || [], offset is
\* parseInt(parts[0] || "0"), length is parseInt(parts[1]) when parts[1] is
\* not empty
substringOf(value, parsed) ==
    IF ~parsed.hasPattern THEN substring(value, 0, Len(value))
    ELSE IF Len(splitColon(parsed.pattern)) >= 2 /\ splitColon(parsed.pattern)[2] # <<>>
    THEN substring(value, parseIntFrom(splitColon(parsed.pattern)[1], 0),
                   parseIntFrom(splitColon(parsed.pattern)[1], 0)
                     + parseIntFrom(splitColon(parsed.pattern)[2], 0))
    ELSE substring(value, parseIntFrom(splitColon(parsed.pattern)[1], 0), Len(value))

\* lines 446-528: the switch on the operator, for a variable that is set.
\* Result: the value to insert, whether the variable is assigned it, whether
\* an Error is thrown.
applyOperator(parsed, value) ==
    CASE parsed.operator = <<"%">> ->
           [value |-> IF parsed.hasPattern /\ endsWith(value, parsed.pattern)
                      THEN SubSeq(value, 1, Len(value) - Len(parsed.pattern)) ELSE value,
            assign |-> FALSE, threw |-> FALSE]
      [] parsed.operator = <<"%", "%">> ->
           [value |-> IF parsed.hasPattern THEN stripAllSuffix(value, parsed.pattern) ELSE value,
            assign |-> FALSE, threw |-> FALSE]
      [] parsed.operator = <<"#">> ->
           [value |-> IF parsed.hasPattern /\ startsWith(value, parsed.pattern)
                      THEN SubSeq(value, Len(parsed.pattern) + 1, Len(value)) ELSE value,
            assign |-> FALSE, threw |-> FALSE]
      [] parsed.operator = <<"#", "#">> ->
           [value |-> IF parsed.hasPattern THEN stripAllPrefix(value, parsed.pattern) ELSE value,
            assign |-> FALSE, threw |-> FALSE]
      [] parsed.operator = <<"/">> ->
           [value |-> IF parsed.hasPattern /\ parsed.pattern # <<>> /\ parsed.hasReplacement
                      THEN jsReplace(value, parsed.pattern, parsed.replacement) ELSE value,
            assign |-> FALSE, threw |-> FALSE]
      [] parsed.operator = <<"/", "/">> ->
           [value |-> IF parsed.hasPattern /\ parsed.pattern # <<>> /\ parsed.hasReplacement
                      THEN replaceAllFrom(value, parsed.pattern, parsed.replacement, 1)
                      ELSE value,
            assign |-> FALSE, threw |-> FALSE]
      [] parsed.operator = <<":", "-">> ->
           [value |-> IF value = <<>> THEN parsed.defaultValue ELSE value,
            assign |-> FALSE, threw |-> FALSE]
      [] parsed.operator = <<":", "=">> ->
           [value |-> IF value = <<>> THEN parsed.defaultValue ELSE value,
            assign |-> value = <<>>, threw |-> FALSE]
      [] parsed.operator = <<":", "?">> ->
           [value |-> value, assign |-> FALSE, threw |-> value = <<>>]
      [] parsed.operator = <<":", "+">> ->
           [value |-> IF value # <<>> THEN parsed.defaultValue ELSE <<>>,
            assign |-> FALSE, threw |-> FALSE]
      [] parsed.operator = <<":">> ->
           [value |-> substringOf(value, parsed), assign |-> FALSE, threw |-> FALSE]
      [] OTHER ->
           [value |-> value, assign |-> FALSE, threw |-> FALSE]

\* the state of the loop of applyParamExpansion
Expansion(result, variables, threw) ==
    [result |-> result, variables |-> variables, threw |-> threw]

\* lines 418-529: the body of the loop for one match
applyMatch(match, e) ==
    IF match.isSimple
    THEN IF MapHas(e.variables, match.expression)
         THEN Expansion(jsReplace(e.result, match.fullMatch, ObjGet(e.variables, match.expression)),
                        e.variables, FALSE)
         ELSE e
    ELSE IF ~MapHas(e.variables, parseComplexExpression(match.expression).variable)
    THEN CASE parseComplexExpression(match.expression).operator \in {<<":", "-">>, <<":", "=">>} ->
                Expansion(jsReplace(e.result, match.fullMatch,
                                    parseComplexExpression(match.expression).defaultValue),
                          e.variables, FALSE)
           [] parseComplexExpression(match.expression).operator = <<":", "?">> ->
                Expansion(e.result, e.variables, TRUE)
           [] parseComplexExpression(match.expression).operator = <<":", "+">> ->
                Expansion(jsReplace(e.result, match.fullMatch, <<>>), e.variables, FALSE)
           [] OTHER -> e
    ELSE CHOOSE r \in
           { IF a.threw THEN Expansion(e.result, e.variables, TRUE)
             ELSE Expansion(jsReplace(e.result, match.fullMatch, a.value),
                            IF a.assign THEN MapSet(e.variables, p.variable, a.value)
                            ELSE e.variables,
                            FALSE) :
             p \in {parseComplexExpression(match.expression)},
             a \in {applyOperator(parseComplexExpression(match.expression),
                                  ObjGet(e.variables,
                                         parseComplexExpression(match.expression).variable))} } : TRUE

RECURSIVE applyMatches(_, _)
applyMatches(matches, e) ==
    IF matches = <<>> \/ e.threw THEN e
    ELSE applyMatches(Tail(matches), applyMatch(Head(matches), e))

\* applyParamExpansion (lines 411-532)
applyParamExpansion(str, variables) ==
    applyMatches(parseAllParamExpansions(str), Expansion(str, variables, FALSE))

\* the texts a variable or a default is drawn from
ValChars == {"a", "$"}
Values == UNION { [1..n -> ValChars] : n \in 0..MaxValLen }

\* "${x" followed by ":" and sub, the default and "}", after the text pre
Template(pre, sub, default) == pre \o <<"$", "{", "x", ":", sub>> \o default \o <<"}">>

\* x is unset, or set to a value
VariableSets == {<<>>} \cup { <<[k |-> <<"x">>, v |-> val]>> : val \in Values }

\* ${x:offset} and ${x:offset:length}: the offset is the character after
\* "${x:", the rest is nothing or ":" and the length
Offsets == {"0", "1"}
Lengths == {<<>>, <<":", "1">>, <<":", "2">>}

InitExpand ==
    /\ IdleFetcher
    /\ fn = "applyParamExpansion"
    /\ arg \in { [str |-> Template(pre, sub, default), variables |-> vs,
                  pre |-> pre, sub |-> sub, default |-> default] :
                 pre \in {<<>>, <<"b">>}, sub \in {"-", "=", "+", "?"},
                 default \in Values, vs \in VariableSets }
              \cup
               { [str |-> Template(pre, sub, default), variables |-> vs,
                  pre |-> pre, sub |-> sub, default |-> default] :
                 pre \in {<<>>, <<"b">>}, sub \in Offsets,
                 default \in Lengths, vs \in VariableSets }
    /\ out = <<>>

ExpandCall ==
    /\ fn = "applyParamExpansion"
    /\ out = <<>>
    /\ out' = <<applyParamExpansion(arg.str, arg.variables)>>
    /\ UNCHANGED <<fn, arg, dlVars>>

\* a later value that refers to $x is evaluated with the variable set the
\* first call left
ExpandLater ==
    /\ fn = "applyParamExpansion"
    /\ Len(out) = 1
    /\ ~out[1].threw
    /\ out' = Append(out, applyParamExpansion(<<"$", "x">>, out[1].variables))
    /\ UNCHANGED <<fn, arg, dlVars>>

NextExpand == ExpandCall \/ ExpandLater

SpecExpand == InitExpand /\ [][NextExpand]_vars

\* the value of x in the variable set of the call, <<>> when x is unset
ValueOfX == IF MapHas(arg.variables, <<"x">>) THEN ObjGet(arg.variables, <<"x">>) ELSE <<>>

\* C20: ${x:-default} evaluates to default when x is unset or empty and to
\* the value of x otherwise, and the variable set is as before.
C20_DefaultWhenUnsetOrEmpty ==
    (fn = "applyParamExpansion" /\ Len(out) = 1 /\ arg.sub = "-") =>
        /\ ~out[1].threw
        /\ out[1].result = arg.pre \o (IF ValueOfX = <<>> THEN arg.default ELSE ValueOfX)
        /\ out[1].variables = arg.variables

\* C21: ${x:=default} with x unset or empty evaluates to default and leaves
\* x set to default, and a later $x evaluates to default.
C21_AssignDefaultPersists ==
    (fn = "applyParamExpansion" /\ Len(out) = 2 /\ arg.sub = "=" /\ ValueOfX = <<>>) =>
        /\ out[1].result = arg.pre \o arg.default
        /\ MapHas(out[1].variables, <<"x">>)
        /\ ObjGet(out[1].variables, <<"x">>) = arg.default
        /\ out[2].result = arg.default

\* the text ${x:offset} and ${x:offset:length} stand for
SubstringExpected ==
    IF arg.default = <<>>
    THEN substring(ValueOfX, parseIntFrom(<<arg.sub>>, 0), Len(ValueOfX))
    ELSE substring(ValueOfX, parseIntFrom(<<arg.sub>>, 0),
                   parseIntFrom(<<arg.sub>>, 0) + parseIntFrom(Tail(arg.default), 0))

\* C22: for a set x, ${x:offset} is the value of x from offset on and
\* ${x:offset:length} the length characters of it from offset on.
C22_SubstringForms ==
    (fn = "applyParamExpansion" /\ Len(out) >= 1 /\ arg.sub \in Offsets
       /\ MapHas(arg.variables, <<"x">>)) =>
        out[1].result = arg.pre \o SubstringExpected

\* ------------------------------------------ parsePKGBUILDMore (part_002)
\* A value of the result is a string or an array of strings: Scalar(text) or
\* List(texts), texts being sequences of characters.
WhiteSpace == {" ", "\n"}

RECURSIVE trimStart(_)
trimStart(s) ==
    IF s # <<>> /\ s[1] \in WhiteSpace THEN trimStart(Tail(s)) ELSE s

RECURSIVE trimEnd(_)
trimEnd(s) ==
    IF s # <<>> /\ s[Len(s)] \in WhiteSpace THEN trimEnd(SubSeq(s, 1, Len(s) - 1)) ELSE s

trim(s) == trimEnd(trimStart(s))

\* str.slice(1, -1)
sliceInner(s) == SubSeq(s, 2, Len(s) - 1)

\* s.search(/\s/): position of the first white space from k on, 0 when there
\* is none (0 stands for the -1 of the code, positions are 1-based here)
RECURSIVE searchSpace(_, _)
searchSpace(s, k) ==
    IF k > Len(s) THEN 0
    ELSE IF s[k] \in WhiteSpace THEN k
    ELSE searchSpace(s, k + 1)

\* the text of an array where a string is expected: its elements joined by ","
RECURSIVE joinComma(_)
joinComma(vs) ==
    IF vs = <<>> THEN <<>>
    ELSE IF Len(vs) = 1 THEN vs[1]
    ELSE vs[1] \o <<",">> \o joinComma(Tail(vs))

textOf(val) == IF val.list THEN joinComma(val.v) ELSE val.v[1]

\* res as applyParamExpansion reads it
variablesOf(res) == [j \in 1..Len(res) |-> [k |-> res[j].k, v |-> textOf(res[j].v)]]

\* res after applyParamExpansion: an entry it assigned holds the new string
storeBack(res, variables) ==
    [j \in 1..Len(variables) |->
        IF j <= Len(res) /\ textOf(res[j].v) = variables[j].v THEN res[j]
        ELSE [k |-> variables[j].k, v |-> Scalar(variables[j].v)]]

isQuoted(str, q) == startsWith(str, <<q>>) /\ endsWith(str, <<q>>)

\* lines 537-538: the text between the quotes
unquote(str) ==
    IF isQuoted(str, "'") \/ isQuoted(str, "\"") THEN sliceInner(str) ELSE str

Unwarped(s, res, threw) == [s |-> s, res |-> res, threw |-> threw]

\* unwarpStr (lines 535-542) in the result res
unwarpStr(str, res) ==
    CHOOSE u \in { Unwarped(e.result, storeBack(res, e.variables), e.threw) :
                   e \in {applyParamExpansion(unquote(str), variablesOf(res))} } : TRUE

\* lines 550-558: c, the position of the last character of the first item,
\* counted from 0 as in the code
itemEnd(s) ==
    IF startsWith(s, <<"\"">>) THEN indexOfFrom(s, <<"\"">>, 2) - 1
    ELSE IF startsWith(s, <<"'">>) THEN indexOfFrom(s, <<"'">>, 2) - 1
    ELSE IF searchSpace(s, 1) = 0 THEN Len(s) - 1
    ELSE (searchSpace(s, 1) - 1) - 1

Unwarping(arr, res, threw) == [arr |-> arr, res |-> res, threw |-> threw]

\* the loop of unwarpArray (lines 548-567): n is inner.length
RECURSIVE unwarpItems(_, _, _, _)
unwarpItems(s, count, n, a) ==
    IF a.threw \/ s = <<>> \/ count >= n THEN a
    ELSE IF itemEnd(s) = 0 THEN unwarpItems(s, count + 1, n, a)
    ELSE CHOOSE r \in
           { unwarpItems(trimStart(SubSeq(s, itemEnd(s) + 2, Len(s))), count + 1, n,
                         Unwarping(Append(a.arr, u.s), u.res, u.threw)) :
             u \in {unwarpStr(SubSeq(s, 1, itemEnd(s) + 1), a.res)} } : TRUE

\* unwarpArray (lines 543-568)
unwarpArray(str, res) ==
    unwarpItems(trim(sliceInner(str)), 0, Len(trim(sliceInner(str))),
                Unwarping(<<>>, res, FALSE))

PkgName == <<"p", "k", "g", "n", "a", "m", "e">>
PkgVer == <<"p", "k", "g", "v", "e", "r">>
Source == <<"s", "o", "u", "r", "c", "e">>
Url == <<"u", "r", "l">>

\* lines 569-578
emptyRes ==
    << [k |-> PkgName, v |-> Scalar(<<>>)],
       [k |-> PkgVer, v |-> Scalar(<<>>)],
       [k |-> Source, v |-> List(<<>>)] >>

More(res, threw) == [res |-> res, threw |-> threw]

\* lines 580-589: one entry of Object.entries(data)
moreEntry(m, k, v) ==
    IF startsWith(v, <<"(">>) /\ endsWith(v, <<")">>)
    THEN CHOOSE r \in { More(MapSet(a.res, k, List(a.arr)), a.threw) :
                        a \in {unwarpArray(v, m.res)} } : TRUE
    ELSE IF isQuoted(v, "\"") \/ isQuoted(v, "'")
    THEN CHOOSE r \in { More(MapSet(u.res, k, Scalar(u.s)), u.threw) :
                        u \in {unwarpStr(v, m.res)} } : TRUE
    ELSE More(MapSet(m.res, k, Scalar(v)), FALSE)

RECURSIVE moreEntries(_, _)
moreEntries(data, m) ==
    IF data = <<>> \/ m.threw THEN m
    ELSE moreEntries(Tail(data), moreEntry(m, Head(data).k, Head(data).v))

\* parsePKGBUILDMore (lines 534-592)
parsePKGBUILDMore(data) == moreEntries(data, More(emptyRes, FALSE))


\* the assignments a PKGBUILD is drawn from: a plain word, or the text b$n
\* (n a variable name) between quotes, bare, or as the first of two elements
Ref(n) == <<"$">> \o n

RawValue(form, n) ==
    CASE form = "plain" -> <<"a">>
      [] form = "quoted" -> <<"\"", "b">> \o Ref(n) \o <<"\"">>
      [] form = "unquoted" -> <<"b">> \o Ref(n)
      [] form = "array" -> <<"(", "b">> \o Ref(n) \o <<" ", "c", "c", ")">>

MoreKeys == {PkgName, PkgVer, Url}

Assignments ==
    { [k |-> k, v |-> RawValue("plain", k), form |-> "plain", ref |-> k] : k \in MoreKeys }
    \cup
    { [k |-> k, v |-> RawValue(form, n), form |-> form, ref |-> n] :
      k \in MoreKeys, form \in {"quoted", "unquoted", "array"}, n \in MoreKeys }

\* Object.entries(data): every key once, in the order of the file
Datas ==
    { d \in UNION { [1..n -> Assignments] : n \in 1..Cardinality(MoreKeys) } :
        \A i, j \in 1..Len(d) : i # j => d[i].k # d[j].k }

InitMore ==
    /\ IdleFetcher
    /\ fn = "parsePKGBUILDMore"
    /\ arg \in Datas
    /\ out = <<>>

MoreCall ==
    /\ fn = "parsePKGBUILDMore"
    /\ out = <<>>
    /\ out' = <<parsePKGBUILDMore(arg)>>
    /\ UNCHANGED <<fn, arg, dlVars>>

NextMore == MoreCall

SpecMore == InitMore /\ [][NextMore]_vars

\* the value of the form with text in the place of the reference
Shaped(form, text) ==
    IF form = "array" THEN List(<< <<"b">> \o text, <<"c", "c">> >>)
    ELSE Scalar(<<"b">> \o text)

AssignedBefore(i, n) == \E j \in 1..(i - 1) : arg[j].k = n
AssignedAfter(i, n) == \E j \in (i + 1)..Len(arg) : arg[j].k = n

\* C23: a reference to a variable assigned earlier is replaced by that
\* variable's evaluated value in a quoted scalar, an unquoted scalar and an
\* array element; a reference to a variable only assigned later stays as
\* written.
C23_ReferencesResolvedInOrder ==
    (fn = "parsePKGBUILDMore" /\ Len(out) = 1) =>
        \A i \in 1..Len(arg) :
            arg[i].form # "plain" =>
                /\ (AssignedBefore(i, arg[i].ref) /\ ~ObjGet(out[1].res, arg[i].ref).list) =>
                       ObjGet(out[1].res, arg[i].k) =
                           Shaped(arg[i].form, textOf(ObjGet(out[1].res, arg[i].ref)))
                /\ (~AssignedBefore(i, arg[i].ref) /\ AssignedAfter(i, arg[i].ref)) =>
                       ObjGet(out[1].res, arg[i].k) = Shaped(arg[i].form, Ref(arg[i].ref))


\* ------------------------------------------------ unwarpArray on its own
\* the texts between the parentheses: words of the letter a, blanks, quotes
ArrayChars == {"a", " ", "\""}
ArrayTexts ==
    { <<"(">> \o body \o <<")">> :
      body \in UNION { [1..n -> ArrayChars] : n \in 0..MaxArrayLen } }

InitUnwarp ==
    /\ IdleFetcher
    /\ fn = "unwarpArray"
    /\ arg \in ArrayTexts
    /\ out = <<>>

UnwarpCall ==
    /\ fn = "unwarpArray"
    /\ out = <<>>
    /\ out' = <<unwarpArray(arg, emptyRes)>>
    /\ UNCHANGED <<fn, arg, dlVars>>

NextUnwarp == UnwarpCall

SpecUnwarp == InitUnwarp /\ [][NextUnwarp]_vars

\* the length of the first item of s: a quoted item runs to its closing
\* quote, any other item to the character before the next white space
firstItemLen(s) ==
    IF s[1] = "\"" THEN indexOfFrom(s, <<"\"">>, 2)
    ELSE IF searchSpace(s, 1) = 0 THEN Len(s)
    ELSE searchSpace(s, 1) - 1

\* the items of s, which starts with no white space, without their quotes
RECURSIVE Items(_)
Items(s) ==
    IF s = <<>> THEN <<>>
    ELSE <<unquote(SubSeq(s, 1, firstItemLen(s)))>>
         \o Items(trimStart(SubSeq(s, firstItemLen(s) + 1, Len(s))))

\* every quote of s opens an item or closes the item it opened, and a
\* closing quote is followed by white space or the end
RECURSIVE WellQuoted(_)
WellQuoted(s) ==
    IF s = <<>> THEN TRUE
    ELSE /\ firstItemLen(s) # 0
         /\ s[1] # "\"" => ~includes(SubSeq(s, 1, firstItemLen(s)), <<"\"">>)
         /\ firstItemLen(s) < Len(s) => s[firstItemLen(s) + 1] \in WhiteSpace
         /\ WellQuoted(trimStart(SubSeq(s, firstItemLen(s) + 1, Len(s))))

\* C26: unwarpArray returns one element per white-space-delimited or quoted
\* item of the array text, in order, none dropped.
C26_OneElementPerItem ==
    (fn = "unwarpArray" /\ Len(out) = 1 /\ WellQuoted(trim(sliceInner(arg)))) =>
        out[1].arr = Items(trim(sliceInner(arg)))


\* ------------------------------------------------ parsePKGBUILD (part_002)
\* /[a-z_-]/
LineStartChars == IdStart \cup {"-"}

\* lines 269-276: the variables of the scan
Scan(pkgbuild, runtype, isLineStart, l, key, afterEq, valueStart, endC) ==
    [pkgbuild |-> pkgbuild, runtype |-> runtype, isLineStart |-> isLineStart, l |-> l,
     key |-> key, afterEq |-> afterEq, valueStart |-> valueStart, endC |-> endC]

startScan == Scan(<<>>, "normal", TRUE, <<>>, <<>>, FALSE, FALSE, "\n")

\* lines 292-306: a character read while runtype is "normal"
readChar(st, char) ==
    IF char = "="
    THEN [st EXCEPT !.key = st.l, !.l = <<>>, !.afterEq = TRUE]
    ELSE IF st.afterEq /\ ~st.valueStart /\ char \notin WhiteSpace
    THEN [st EXCEPT !.l = <<char>>, !.afterEq = FALSE, !.valueStart = FALSE,
                    !.endC = IF char = "(" THEN ")" ELSE st.endC]
    ELSE [st EXCEPT !.l = st.l \o <<char>>, !.afterEq = FALSE, !.valueStart = FALSE,
                    !.endC = IF char = "(" /\ st.valueStart THEN ")" ELSE st.endC]

\* lines 314-326: the character that ends the value
endChar(st, char) ==
    IF char # st.endC THEN st
    ELSE [st EXCEPT !.pkgbuild = IF st.key # <<>> THEN MapSet(st.pkgbuild, st.key, trim(st.l))
                                 ELSE st.pkgbuild,
                    !.key = <<>>, !.l = <<>>, !.endC = "\n",
                    !.isLineStart = IF char = "\n" THEN TRUE ELSE st.isLineStart,
                    !.runtype = IF char = "\n" THEN "normal" ELSE st.runtype]

\* lines 307-313
ignoreChar(st, char) ==
    IF char = "\n" THEN [st EXCEPT !.isLineStart = TRUE, !.runtype = "normal"] ELSE st

\* lines 291-326: the body of the loop after the test of the line start
scanChar(st, char) ==
    IF st.runtype = "ignoreLine" THEN ignoreChar(st, char)
    ELSE endChar(readChar(st, char), char)

\* lines 279-327: the body of the loop
scanStep(st, char) ==
    IF st.isLineStart
    THEN IF char = "\n" THEN st
         ELSE IF char \notin LineStartChars
         THEN [st EXCEPT !.isLineStart = FALSE, !.runtype = "ignoreLine"]
         ELSE scanChar([st EXCEPT !.isLineStart = FALSE], char)
    ELSE scanChar(st, char)

RECURSIVE scanFrom(_, _, _)
scanFrom(data, i, st) ==
    IF i > Len(data) THEN st ELSE scanFrom(data, i + 1, scanStep(st, data[i]))

\* parsePKGBUILD (lines 267-329)
parsePKGBUILD(data) == scanFrom(data, 1, startScan).pkgbuild


\* the lines a PKGBUILD text is drawn from; name is the variable a top-level
\* assignment sets, <<>> for a text that is no top-level assignment
PkgLine(text, name) == [text |-> text, name |-> name]

PkgLines ==
    { PkgLine(<<"n", "=", "a", "\n">>, <<"n">>),
      PkgLine(<<"u", "=", "\"", "a", "=", "b", "\"", "\n">>, <<"u">>),
      PkgLine(<<"s", "=", "(", "a", "\n", " ", "b", ")", "\n">>, <<"s">>),
      PkgLine(<<"d", "=", "(", "\"", "a", ")", "\"", " ", "b", ")", "\n">>, <<"d">>),
      PkgLine(<<"#", "c", "=", "a", "\n">>, <<>>),
      PkgLine(<<" ", "i", "=", "a", "\n">>, <<>>),
      PkgLine(<<"f", "(", ")", " ", "{", "\n", " ", "k", "=", "a", "\n", "}", "\n">>, <<>>) }

PkgTexts == UNION { [1..n -> PkgLines] : n \in 1..MaxLines }

RECURSIVE textOfLines(_)
textOfLines(ls) == IF ls = <<>> THEN <<>> ELSE Head(ls).text \o textOfLines(Tail(ls))

InitPkgbuild ==
    /\ IdleFetcher
    /\ fn = "parsePKGBUILD"
    /\ arg \in PkgTexts
    /\ out = <<>>

PkgbuildCall ==
    /\ fn = "parsePKGBUILD"
    /\ out = <<>>
    /\ out' = <<parsePKGBUILD(textOfLines(arg))>>
    /\ UNCHANGED <<fn, arg, dlVars>>

NextPkgbuild == PkgbuildCall

SpecPkgbuild == InitPkgbuild /\ [][NextPkgbuild]_vars

\* the names the top-level assignments of the text set
TopLevelNames == { arg[i].name : i \in 1..Len(arg) } \ {<<>>}

\* C27: parsePKGBUILD returns one entry per top-level assignment, keyed by
\* its name, and no entry for a comment line, an indented line, a function
\* body or text inside a value.
C27_OneEntryPerAssignment ==
    (fn = "parsePKGBUILD" /\ Len(out) = 1) =>
        { out[1][j].k : j \in 1..Len(out[1]) } = TopLevelNames


\* ------------------------------------------------ parseSourceUrl on its own
\* raw source strings: an optional "name::", then a file name, a url, or
\* "git+" and a url, with or without a doubled slash, a ".git" suffix and a
\* fragment; a fragment may hold a slash (#branch=release/x)
Fragments == {<<>>, <<"#tag">>, <<"#branch", "/", "x">>}

RawSource(named, git, scheme, doubled, suffix, fragment) ==
    (IF named THEN <<"renamed", "::">> ELSE <<>>)
    \o (IF git THEN <<"git+">> ELSE <<>>)
    \o (IF scheme = "" THEN <<>>
        ELSE <<scheme, "example.org", "/">> \o (IF doubled THEN <<"/">> ELSE <<>>)
             \o <<"o", "/">>)
    \o <<"r">> \o (IF suffix THEN <<".git">> ELSE <<>>) \o fragment

RawSources ==
    { [str |-> RawSource(named, git, scheme, doubled, suffix, fragment),
       named |-> named, git |-> git, fragment |-> fragment] :
      named \in BOOLEAN, git \in BOOLEAN, scheme \in {"https://", "http://", "ssh://"},
      doubled \in BOOLEAN, suffix \in BOOLEAN, fragment \in Fragments }
    \cup
    { [str |-> RawSource(named, FALSE, "", FALSE, FALSE, <<>>),
       named |-> named, git |-> FALSE, fragment |-> <<>>] : named \in BOOLEAN }

InitSource ==
    /\ IdleFetcher
    /\ fn = "parseSourceUrl"
    /\ arg \in RawSources
    /\ out = <<>>

SourceCall ==
    /\ fn = "parseSourceUrl"
    /\ out = <<>>
    /\ out' = <<parseSourceUrl(arg.str)>>
    /\ UNCHANGED <<fn, arg, dlVars>>

NextSource == SourceCall

SpecSource == InitSource /\ [][NextSource]_vars

\* the path of u, the text after the scheme, has no two slashes in a row
NoDoubledSlash(u) == \A i \in 2..(Len(u) - 1) : ~(u[i] = "/" /\ u[i + 1] = "/")

\* u holds no "git+" prefix, no "#..." fragment and no ".git" suffix
Bare(u) ==
    /\ ~startsWith(u, <<"git+">>)
    /\ \A i \in 1..Len(u) : ~isFragment(u[i]) /\ u[i] # ".git"

\* C25: the transport is git exactly when the url part starts with git+; a
\* git url is returned without git+, fragment and .git suffix; an http(s)
\* url has the repeated slashes of its path collapsed; the name is the text
\* before "::" when present, else the last path segment.
C25_ParsedSource ==
    (fn = "parseSourceUrl" /\ Len(out) = 1) =>
        /\ out[1].type = (IF arg.git THEN "git" ELSE "http")
        /\ arg.git => Bare(out[1].url)
        /\ isHttpUrl(out[1].url) => NoDoubledSlash(out[1].url)
        /\ out[1].name = (IF arg.named THEN <<"renamed">> ELSE lastSegment(out[1].url))


\* ------------------------------------------------- installWithOutCheckDep
\* (main.ts 1031-1120) with make (963-1029), at the level of packages. A
\* package of the batch is described by what its steps meet:
\*   def      "current": .SRCINFO is there with the wanted version,
\*            "fetched": getAurPackage brings it, "missing": the clone fails
\*            and getPkgFile returns null
\*   assets   "none": no source entry, "ok": every source is fetched,
\*            "fail": a source is not fetched
\*   built    its archives are in the build directory before make
\*   buildOk  makepkg ends with success
\* The state of the call is the record out; out.pc is the await reached.
Batch ==
    { <<a, b>> :
      a \in [name : {"pkgA"}, official : {FALSE}, def : {"current", "fetched", "missing"},
             assets : {"none", "ok", "fail"}, built : BOOLEAN, buildOk : BOOLEAN],
      b \in [name : {"pkgB"}, official : BOOLEAN, def : {"current", "fetched", "missing"},
             assets : {"none", "ok", "fail"}, built : BOOLEAN, buildOk : BOOLEAN] }

pkgOf(names, name) == CHOOSE p \in {names[j] : j \in 1..Len(names)} : p.name = name

namesOf(ps) == [j \in 1..Len(ps) |-> ps[j].name]

elems(ls) == {ls[j] : j \in 1..Len(ls)}

\* line 1034: names.filter((i) => i.official).map((i) => i.name)
officialNames(names) ==
    LET isOfficial(p) == p.official IN namesOf(SelectSeq(names, isOfficial))

\* lines 1053-1062: the packages getAurPackage is called for
fetchedNames(names) ==
    LET notCurrent(p) == p.def # "current" IN namesOf(SelectSeq(names, notCurrent))

\* lines 1070-1072: parsePkgData(getPkgFile(name)!) raises on null
parseRaises(names) == \E j \in 1..Len(names) : names[j].def = "missing"

\* lines 1078-1084: one entry for every source of every package
installUrls(names) ==
    LET hasSource(p) == p.assets # "none" IN
    [j \in 1..Len(SelectSeq(names, hasSource)) |->
        [name |-> SelectSeq(names, hasSource)[j].name]]

\* the counters of downloadAssets when its tasks have ended: a task that is
\* fetched takes one from the counter of its package
RECURSIVE countDown(_, _, _)
countDown(us, names, m) ==
    IF us = <<>> THEN m
    ELSE countDown(Tail(us), names,
                   IF pkgOf(names, Head(us).name).assets = "ok"
                   THEN deCount(m, Head(us).name) ELSE m)

\* downloadAssets (726-920): the names whose counter is 0 at the end
downloadAssetsResult(us, names) == readyNames(countDown(us, names, countTasks(us, <<>>)))

\* make lines 968-975
builtNamesOf(sl, names) ==
    LET isBuilt(n) == pkgOf(names, n).built IN SelectSeq(sl, isBuilt)

\* make lines 986-994: buildList
buildListOf(sl, names, mustRebuild) ==
    LET toBuild(n) == n \in mustRebuild \/ n \notin elems(builtNamesOf(sl, names))
    IN SelectSeq(sl, toBuild)

\* variant: every package that makepkg ran for is reported
okNamesOf_all(sl, names, mustRebuild) ==
    LET kept(n) == n \notin mustRebuild /\ n \in elems(builtNamesOf(sl, names))
    IN SelectSeq(sl, kept) \o buildListOf(sl, names, mustRebuild)

\* make lines 986-1028: okNames
okNamesOf(sl, names, mustRebuild) ==
    LET kept(n) == n \notin mustRebuild /\ n \in elems(builtNamesOf(sl, names))
        success(n) == pkgOf(names, n).buildOk
    IN SelectSeq(sl, kept) \o SelectSeq(buildListOf(sl, names, mustRebuild), success)

\* lines 1090-1096: the archives of the packages of sl2
pkgFilesOf(sl2) == [j \in 1..Len(sl2) |-> <<sl2[j], ".pkg.tar.zst">>]

Call(pc, official, fetched, urlsX, sl, mustRebuild, buildList, sl2, pkgFiles) ==
    [pc |-> pc, official |-> official, fetched |-> fetched, urls |-> urlsX, sl |-> sl,
     mustRebuild |-> mustRebuild, buildList |-> buildList, sl2 |-> sl2,
     pkgFiles |-> pkgFiles]

InitInstall ==
    /\ IdleFetcher
    /\ fn = "installWithOutCheckDep"
    /\ arg \in Batch
    /\ out = Call("official", <<>>, <<>>, <<>>, <<>>, {}, <<>>, <<>>, <<>>)

\* lines 1034-1043: sudo pacman -S for the official names
InstallOfficial ==
    /\ fn = "installWithOutCheckDep"
    /\ out.pc = "official"
    /\ out' = [out EXCEPT !.pc = "get", !.official = officialNames(arg)]
    /\ UNCHANGED <<fn, arg, dlVars>>

\* lines 1051-1063
GetDefinitions ==
    /\ fn = "installWithOutCheckDep"
    /\ out.pc = "get"
    /\ out' = [out EXCEPT !.pc = "parse", !.fetched = fetchedNames(arg)]
    /\ UNCHANGED <<fn, arg, dlVars>>

\* lines 1065-1084: the call is rejected when a definition is missing
ParseDefinitions ==
    /\ fn = "installWithOutCheckDep"
    /\ out.pc = "parse"
    /\ out' = IF parseRaises(arg) THEN [out EXCEPT !.pc = "rejected"]
              ELSE [out EXCEPT !.pc = "download", !.urls = installUrls(arg)]
    /\ UNCHANGED <<fn, arg, dlVars>>

\* line 1085
Download ==
    /\ fn = "installWithOutCheckDep"
    /\ out.pc = "download"
    /\ out' = [out EXCEPT !.pc = "make", !.sl = downloadAssetsResult(out.urls, arg)]
    /\ UNCHANGED <<fn, arg, dlVars>>

\* line 1086: make(sl, parseData); the user selects the packages to rebuild
Make ==
    /\ fn = "installWithOutCheckDep"
    /\ out.pc = "make"
    /\ \E mustRebuild \in SUBSET elems(builtNamesOf(out.sl, arg)) :
         out' = [out EXCEPT !.pc = "install", !.mustRebuild = mustRebuild,
                            !.buildList = buildListOf(out.sl, arg, mustRebuild),
                            !.sl2 = okNamesOf(out.sl, arg, mustRebuild)]
    /\ UNCHANGED <<fn, arg, dlVars>>

\* lines 1088-1111: sudo pacman -U for the archives
Install ==
    /\ fn = "installWithOutCheckDep"
    /\ out.pc = "install"
    /\ out' = [out EXCEPT !.pc = "done", !.pkgFiles = pkgFilesOf(out.sl2)]
    /\ UNCHANGED <<fn, arg, dlVars>>

NextInstall ==
    \/ InstallOfficial
    \/ GetDefinitions
    \/ ParseDefinitions
    \/ Download
    \/ Make
    \/ Install

SpecInstall == InitInstall /\ [][NextInstall]_vars


\* the archive of a package is among those given to pacman -U
Installed(name) == <<name, ".pkg.tar.zst">> \in elems(out.pkgFiles)

\* no step of the package fails
Healthy(p) == p.def # "missing" /\ p.assets = "ok" /\ p.buildOk

\* C24: when the call has ended, every package whose own steps all succeed
\* is installed, whatever failed for the other package of the batch.
C24_FailureConfinedToPackage ==
    (fn = "installWithOutCheckDep" /\ out.pc \in {"done", "rejected"}) =>
        \A j \in 1..Len(arg) : Healthy(arg[j]) => Installed(arg[j].name)

\* C28: a package without source entries is in the list given to make.
C28_NoSourceIsReady ==
    (fn = "installWithOutCheckDep" /\ out.pc \in {"make", "install", "done"}) =>
        \A j \in 1..Len(arg) : arg[j].assets = "none" => arg[j].name \in elems(out.sl)

\* C30: makepkg runs only for packages of the result of downloadAssets and
\* only after it; pacman -U receives only archives of packages make reported
\* ok, which were built with success in this run or were already built and
\* not selected for rebuild; a package outside the result of downloadAssets
\* is neither built nor installed.
C30_StagesGated ==
    fn = "installWithOutCheckDep" =>
        /\ out.pc \in {"official", "get", "parse", "download", "rejected"} =>
               out.buildList = <<>> /\ out.sl2 = <<>>
        /\ out.pc # "done" => out.pkgFiles = <<>>
        /\ elems(out.buildList) \subseteq elems(out.sl)
        /\ \A n \in elems(out.sl2) :
               \/ n \in elems(out.buildList) /\ pkgOf(arg, n).buildOk
               \/ pkgOf(arg, n).built /\ n \notin out.mustRebuild /\ n \in elems(out.sl)
        /\ \A f \in elems(out.pkgFiles) : f[1] \in elems(out.sl2)
        /\ \A j \in 1..Len(arg) :
               arg[j].name \notin elems(out.sl) =>
                   arg[j].name \notin elems(out.buildList) /\ ~Installed(arg[j].name)

\* pkgB alone is in the result of downloadAssets and is installed; pkgA,
\* though built before and able to build, is neither built nor installed
C30_Witness ==
    /\ fn = "installWithOutCheckDep"
    /\ out.pc = "done"
    /\ out.sl = <<"pkgB">>
    /\ out.pkgFiles = pkgFilesOf(<<"pkgB">>)
    /\ pkgOf(arg, "pkgA").buildOk
    /\ pkgOf(arg, "pkgA").built


\* ------------------------------------------- the counters of downloadAssets
\* counts.values().reduce((a, b) => a + b, 0)
RECURSIVE sumCounts(_)
sumCounts(m) == IF m = <<>> THEN 0 ELSE Head(m).v + sumCounts(Tail(m))

\* mprogress (lines 776-784): run of run/all
progressRun == Len(urls) - sumCounts(counts)

\* the tasks of package n that have not ended well
Remaining(n) == {t \in Tasks : urls[t].name = n /\ ~Succeeded(t)}

====
